---- MODULE Spec2Model ----
(***************************************************************************)
(* A model of the R8 CHIP-8 interpreter: Emulator (load_rom, tick), the    *)
(* devices it owns (Memory, Stack, Timer, KeyBoard, Display, VRegisters)   *)
(* and the host calls that drive it.                                       *)
(***************************************************************************)
EXTENDS Integers, Sequences, FiniteSets, TLC

(***************************************************************************)
(* Program constants.                                                      *)
(***************************************************************************)
\* r8-core/src/memory.rs: const MEMORY_SIZE: usize = 0x1000
MEMORY_SIZE == 4096
\* r8-core/src/memory.rs: Address::ENTRY_POINT = Self(0x200)
ENTRY_POINT == 512
\* r8-core/src/memory.rs: Address::FONTS_INDEX = Self(0)
FONTS_INDEX == 0
\* emulator/stack.rs: STACK_SIZE = 0x10
STACK_SIZE == 16
\* emulator/constants.rs
REGISTER_COUNT == 16
WIDTH == 64
HEIGHT == 32

(***************************************************************************)
(* Bounds of the model.                                                    *)
(***************************************************************************)
\* how many distinct keys the host presses and releases
MaxHostKeys == 2
\* how many bytes the longest ROM has beyond the 3584 that fit
MaxExcess == 2
\* how many distinct bytes the random generator is taken to produce, less one
MaxRand == 1

(***************************************************************************)
(* Bit arithmetic on naturals.                                             *)
(***************************************************************************)
RECURSIVE BitAnd(_, _)
BitAnd(a, b) ==
    IF a = 0 \/ b = 0 THEN 0
    ELSE (IF a % 2 = 1 /\ b % 2 = 1 THEN 1 ELSE 0) + 2 * BitAnd(a \div 2, b \div 2)

RECURSIVE BitOr(_, _)
BitOr(a, b) ==
    IF a = 0 THEN b
    ELSE IF b = 0 THEN a
    ELSE (IF a % 2 = 1 \/ b % 2 = 1 THEN 1 ELSE 0) + 2 * BitOr(a \div 2, b \div 2)

RECURSIVE BitXor(_, _)
BitXor(a, b) ==
    IF a = 0 THEN b
    ELSE IF b = 0 THEN a
    ELSE (IF (a % 2) # (b % 2) THEN 1 ELSE 0) + 2 * BitXor(a \div 2, b \div 2)

Pow2(k) == CASE k = 0 -> 1 [] k = 1 -> 2 [] k = 2 -> 4 [] k = 3 -> 8
             [] k = 4 -> 16 [] k = 5 -> 32 [] k = 6 -> 64 [] k = 7 -> 128
             [] k = 8 -> 256 [] k = 9 -> 512 [] k = 10 -> 1024 [] k = 11 -> 2048
             [] k = 12 -> 4096 [] k = 13 -> 8192 [] k = 14 -> 16384
             [] k = 15 -> 32768 [] OTHER -> 65536

Min(a, b) == IF a < b THEN a ELSE b

(***************************************************************************)
(* Results of the fallible operations: Ok(()) or an EmulatorError.         *)
(***************************************************************************)
Ok == [kind |-> "Ok", value |-> 0]
Err(kind, value) == [kind |-> kind, value |-> value]

(***************************************************************************)
(* Address (r8-core/src/memory.rs).                                        *)
(***************************************************************************)
\* Address::new : masks to 12 bits
Address_new(address) == address % 4096

\* Address::try_new : [err, address]
Address_try_new(address) ==
    IF address > 4095
    THEN [err |-> Err("InvalidAddress", address), address |-> 0]
    ELSE [err |-> Ok, address |-> address]

\* add_assign that stores the sum, cut to 12 bits, before it is checked
add_assign_storing(self, other) ==
    [err |-> Address_try_new(self + other).err,
     address |-> Address_new(self + other)]

\* Address::add_assign : [err, address]; the address is kept on failure
add_assign(self, other) ==
    LET r == Address_try_new(self + other)
    IN IF r.err = Ok THEN r ELSE [err |-> r.err, address |-> self]

(***************************************************************************)
(* The font table.                                                         *)
(***************************************************************************)
FONT_SET ==
  << 240, 144, 144, 144, 240,  32,  96,  32,  32, 112, 240,  16, 240, 128, 240, 240,
      16, 240,  16, 240, 144, 144, 240,  16,  16, 240, 128, 240,  16, 240, 240, 128,
     240, 144, 240, 240,  16,  32,  64,  64, 240, 144, 240, 144, 240, 240, 144, 240,
      16, 240, 240, 144, 240, 144, 144, 224, 144, 224, 144, 224, 240, 128, 128, 128,
     240, 224, 144, 144, 144, 224, 240, 128, 240, 128, 240, 240, 128, 240, 128, 128 >>

(***************************************************************************)
(* Memory (r8-core/src/memory.rs).  ram: [u8; MEMORY_SIZE] is the tuple of *)
(* its bytes; the byte at address a is ram[a + 1].                         *)
(***************************************************************************)
Memory_new == [k \in 1..MEMORY_SIZE |-> 0]

\* Index<Address> for Memory
MemAt(ram, a) == ram[a + 1]

\* n zero bytes
Zeros(n) == SubSeq(Memory_new, 1, n)

\* a copy that clears the bytes below `start`
Splice_clearing(ram, start, data) ==
    Zeros(start) \o data \o SubSeq(ram, start + Len(data) + 1, MEMORY_SIZE)

\* ram with the bytes from address `start` on replaced by `data`
Splice(ram, start, data) ==
    SubSeq(ram, 1, start) \o data \o SubSeq(ram, start + Len(data) + 1, MEMORY_SIZE)

\* Memory::read_range copies the slice `data` INTO memory at start_address.
read_range(ram, start_address, data) ==
    IF Len(data) + start_address > 4095
    THEN [err |-> Err("OutOfBounds", Len(data) + start_address), ram |-> ram]
    ELSE [err |-> Ok, ram |-> Splice(ram, start_address, data)]

\* Memory::write_range copies `len` bytes OUT of memory from start_address.
write_range(ram, start_address, len) ==
    IF start_address + len > 4095
    THEN [err |-> Err("OutOfBounds", len + start_address), data |-> <<>>]
    ELSE [err |-> Ok, data |-> SubSeq(ram, start_address + 1, start_address + len)]

(***************************************************************************)
(* A reader (std::io::Read) is the bytes it holds and a script of what its *)
(* successive read() calls do: ShortRead(k) delivers at most k bytes,      *)
(* Interrupted is ErrorKind::Interrupted, IoError any other I/O error.     *)
(* Once the script is used up a read delivers all that is left; a read     *)
(* with nothing left returns Ok(0).                                        *)
(***************************************************************************)
ShortRead(k) == [ev |-> "read", n |-> k]
Interrupted == [ev |-> "int", n |-> 0]
IoError == [ev |-> "err", n |-> 0]

RECURSIVE LoadLoop(_, _, _, _, _)
\* the read loop that takes an interrupted read for the end of the stream
LoadLoop_interrupted(ram, pos, data, consumed, script) ==
    IF pos >= MEMORY_SIZE
    THEN [err |-> Ok, ram |-> ram]
    ELSE IF script # <<>> /\ Head(script).ev = "int"
    THEN [err |-> Ok, ram |-> Splice(ram, pos, Zeros(MEMORY_SIZE - pos))]
    ELSE IF script # <<>> /\ Head(script).ev = "err"
    THEN [err |-> Err("LoadError", 0), ram |-> ram]
    ELSE LET avail == Min(Len(data) - consumed, MEMORY_SIZE - pos)
             n     == IF script = <<>> THEN avail ELSE Min(Head(script).n, avail)
             rest  == IF script = <<>> THEN <<>> ELSE Tail(script)
         IN IF n = 0
            THEN [err |-> Ok, ram |-> Splice(ram, pos, Zeros(MEMORY_SIZE - pos))]
            ELSE LoadLoop(Splice(ram, pos, SubSeq(data, consumed + 1, consumed + n)),
                          pos + n, data, consumed + n, rest)

\* the `while !buf.is_empty()` loop of Memory::load_rom; buf starts at pos
LoadLoop(ram, pos, data, consumed, script) ==
    IF pos >= MEMORY_SIZE
    THEN [err |-> Ok, ram |-> ram]
    ELSE IF script # <<>> /\ Head(script).ev = "int"
    THEN LoadLoop(ram, pos, data, consumed, Tail(script))
    ELSE IF script # <<>> /\ Head(script).ev = "err"
    THEN [err |-> Err("LoadError", 0), ram |-> ram]
    ELSE LET avail == Min(Len(data) - consumed, MEMORY_SIZE - pos)
             n     == IF script = <<>> THEN avail ELSE Min(Head(script).n, avail)
             rest  == IF script = <<>> THEN <<>> ELSE Tail(script)
         IN IF n = 0
            THEN \* Ok(0) => break, then `buf.fill(0)`
                 [err |-> Ok, ram |-> Splice(ram, pos, Zeros(MEMORY_SIZE - pos))]
            ELSE LoadLoop(Splice(ram, pos, SubSeq(data, consumed + 1, consumed + n)),
                          pos + n, data, consumed + n, rest)

\* Memory::load_rom without the zero fill of [0x050, 0x200)
Memory_load_rom_keeps_gap(ram, reader) ==
    LET fonts == read_range(ram, FONTS_INDEX, FONT_SET)
    IN IF fonts.err # Ok
       THEN fonts
       ELSE LoadLoop(fonts.ram, ENTRY_POINT, reader.data, 0, reader.script)

\* Memory::load_rom : [err, ram]
Memory_load_rom(ram, reader) ==
    LET fonts == read_range(ram, FONTS_INDEX, FONT_SET)
    IN IF fonts.err # Ok
       THEN fonts
       ELSE LoadLoop(Splice(fonts.ram, FONTS_INDEX + Len(FONT_SET),
                            Zeros(ENTRY_POINT - (FONTS_INDEX + Len(FONT_SET)))),
                     ENTRY_POINT, reader.data, 0, reader.script)

(***************************************************************************)
(* Stack (emulator/stack.rs).  The value is the sequence array[0..top) of  *)
(* the live entries, bottom first: `top` is its length, and the slots at   *)
(* and above `top` are never read before push has written them.            *)
(***************************************************************************)
Stack_new == << >>

\* Stack::len
Stack_len(self) == Len(self)

\* Stack::push with the full test off by one (`>` for `>=`)
push_past_full(self, item) ==
    IF Stack_len(self) > STACK_SIZE
    THEN [err |-> Err("StackOverFlow", 0), stack |-> self]
    ELSE [err |-> Ok, stack |-> Append(self, item)]

\* Stack::push : [err, stack]
push(self, item) ==
    IF Stack_len(self) >= STACK_SIZE
    THEN [err |-> Err("StackOverFlow", 0), stack |-> self]
    ELSE [err |-> Ok, stack |-> Append(self, item)]

\* Stack::pop : [err, stack, item]
pop(self) ==
    IF Stack_len(self) = 0
    THEN [err |-> Err("StackUnderFlow", 0), stack |-> self, item |-> 0]
    ELSE [err |-> Ok,
          stack |-> SubSeq(self, 1, Len(self) - 1),
          item |-> self[Len(self)]]

\* Stack::clear
Stack_clear(self) == << >>

(***************************************************************************)
(* Timer (emulator/timer.rs).                                              *)
(***************************************************************************)
Timer_new == 0

\* decrement that wraps below zero
Timer_decrement_wrapping(self) == IF self = 0 THEN 255 ELSE self - 1

Timer_decrement(self) == IF self > 0 THEN self - 1 ELSE self

(***************************************************************************)
(* KeyBoard (emulator/keyboard.rs): a 16-bit mask.                         *)
(***************************************************************************)
KeyBoard_default == 0

KeyBoard_is_set(self, key) == (self \div Pow2(key)) % 2 = 1

KeyBoard_set(self, key) == BitOr(self, Pow2(key))

KeyBoard_unset(self, key) == BitAnd(self, 65535 - Pow2(key))

(***************************************************************************)
(* Display (emulator/display.rs): vram[x][y] and the updated flag.         *)
(***************************************************************************)
BlankVram == [x \in 0..(WIDTH - 1) |-> [y \in 0..(HEIGHT - 1) |-> FALSE]]

Display_new == [vram |-> BlankVram, updated |-> FALSE]

\* Display::clear that leaves `updated` as it was
Display_clear_keeps_flag(self) == [vram |-> BlankVram, updated |-> self.updated]

Display_clear(self) == [vram |-> BlankVram, updated |-> TRUE]

\* One pass of the `for bit_index in 0..8` loop of Display::set.
\* acc = [vram, result, panic]; `x + bit_index` is a u8 addition: with
\* overflow checks it panics past 255, without them it wraps.
RECURSIVE SetBits(_, _, _, _, _, _)
SetBits(acc, x, y, value, bit_index, checks) ==
    IF bit_index = 8 \/ acc.panic
    THEN acc
    ELSE IF checks /\ x + bit_index > 255
    THEN [acc EXCEPT !.panic = TRUE]
    ELSE LET x_usize == ((x + bit_index) % 256) % WIDTH
             pixel   == BitAnd(value, 128 \div Pow2(bit_index)) # 0
             old     == acc.vram[x_usize][y]
             hit     == (~(old # pixel)) /\ ~pixel
         IN SetBits([vram   |-> [acc.vram EXCEPT ![x_usize][y] = (old # pixel)],
                     result |-> IF hit THEN 1 ELSE acc.result,
                     panic  |-> FALSE],
                    x, y, value, bit_index + 1, checks)

\* Display::set that leaves `updated` as it was
Display_set_keeps_flag(self, x, y, value, checks) ==
    LET r == SetBits([vram |-> self.vram, result |-> 0, panic |-> FALSE],
                     x, y % HEIGHT, value, 0, checks)
    IN [display |-> [vram |-> r.vram, updated |-> self.updated],
        result |-> r.result, panic |-> r.panic]

\* Display::set : [display, result, panic]
Display_set(self, x, y, value, checks) ==
    LET r == SetBits([vram |-> self.vram, result |-> 0, panic |-> FALSE],
                     x, y % HEIGHT, value, 0, checks)
    IN [display |-> [vram |-> r.vram, updated |-> TRUE],
        result |-> r.result, panic |-> r.panic]

(***************************************************************************)
(* VRegisters (emulator/register.rs).                                      *)
(***************************************************************************)
VRegisters_default == [r \in 0..(REGISTER_COUNT - 1) |-> 0]

\* RegisterIndex::try_new : [err, index]
RegisterIndex_try_new(value) ==
    IF value > 15
    THEN [err |-> Err("InvalidRegister", value), index |-> 0]
    ELSE [err |-> Ok, index |-> value % 16]

\* Index<RangeInclusive<RegisterIndex>>: the slice starts at `start` and is
\* `end - start` registers long.
RegisterRangeLen(start, end) == end - start

RegisterRange(registers, start, end) ==
    [k \in 1..RegisterRangeLen(start, end) |-> registers[start + k - 1]]

\* copy_from_slice into registers[start..=end] through IndexMut
RegisterRangeStore(registers, start, end, data) ==
    [r \in 0..(REGISTER_COUNT - 1) |->
        IF r >= start /\ r < start + RegisterRangeLen(start, end)
        THEN data[r - start + 1] ELSE registers[r]]

\* digits with the tens first
bcd_tens_first(value) == << (value % 100) \div 10, value \div 100, value % 10 >>

\* emulator.rs: fn bcd
bcd(value) == << value \div 100, (value % 100) \div 10, value % 10 >>

(***************************************************************************)
(* Opcode (emulator/opcode.rs): TryFrom<u16>.                              *)
(***************************************************************************)
\* macro nibble!(n) : (value >> (12 - 4 * n)) & 0xF
nibble(value, n) == (value \div Pow2(12 - 4 * n)) % 16

\* an Opcode value: the arm and the fields the arm carries (0 where absent)
Arm(op, address, x, y, byte, n, value) ==
    [op |-> op, address |-> address, x |-> x, y |-> y, byte |-> byte, n |-> n,
     value |-> value]

OpAddr(op, value) == Arm(op, Address_new(value % 4096), 0, 0, 0, 0, 0)
OpXByte(op, value) == Arm(op, 0, nibble(value, 1), 0, value % 256, 0, 0)
OpXY(op, value) == Arm(op, 0, nibble(value, 1), nibble(value, 2), 0, 0, 0)
OpX(op, value) == Arm(op, 0, nibble(value, 1), 0, 0, 0, 0)
OpInvalid(value) == Arm("Invalid", 0, 0, 0, 0, 0, value)

\* TryFrom<u16> for Opcode (register!() cannot fail: a nibble is <= 0xF)
Decode(value) ==
    LET hi == value \div 4096
        n3 == nibble(value, 3)
        lo == value % 256
    IN CASE value = 224 -> Arm("Cls", 0, 0, 0, 0, 0, 0)
         [] value = 238 -> Arm("Ret", 0, 0, 0, 0, 0, 0)
         [] hi = 0 /\ value # 224 /\ value # 238 -> OpAddr("Sys", value)
         [] hi = 1 -> OpAddr("Jp", value)
         [] hi = 2 -> OpAddr("Call", value)
         [] hi = 3 -> OpXByte("SeByte", value)
         [] hi = 4 -> OpXByte("SneByte", value)
         [] hi = 5 -> IF n3 = 0 THEN OpXY("SeRegister", value) ELSE OpInvalid(value)
         [] hi = 6 -> OpXByte("LdByte", value)
         [] hi = 7 -> OpXByte("AddByte", value)
         [] hi = 8 -> CASE n3 = 0 -> OpXY("LdRegister", value)
                        [] n3 = 1 -> OpXY("Or", value)
                        [] n3 = 2 -> OpXY("And", value)
                        [] n3 = 3 -> OpXY("Xor", value)
                        [] n3 = 4 -> OpXY("AddRegister", value)
                        [] n3 = 5 -> OpXY("Sub", value)
                        [] n3 = 6 -> OpX("Shr", value)
                        [] n3 = 7 -> OpXY("Subn", value)
                        [] n3 = 14 -> OpX("Shl", value)
                        [] OTHER -> OpInvalid(value)
         [] hi = 9 -> IF n3 = 0 THEN OpXY("SneRegister", value) ELSE OpInvalid(value)
         [] hi = 10 -> OpAddr("LdI", value)
         [] hi = 11 -> OpAddr("JpV0", value)
         [] hi = 12 -> OpXByte("Rnd", value)
         [] hi = 13 -> Arm("Drw", 0, nibble(value, 1), nibble(value, 2), 0, n3, 0)
         [] hi = 14 -> CASE lo = 158 -> OpX("Skp", value)
                         [] lo = 161 -> OpX("Sknp", value)
                         [] OTHER -> OpInvalid(value)
         [] hi = 15 -> CASE lo = 7 -> OpX("LdVxDT", value)
                         [] lo = 10 -> OpX("LdVxK", value)
                         [] lo = 21 -> OpX("LdDTVx", value)
                         [] lo = 24 -> OpX("LdSTVx", value)
                         [] lo = 30 -> OpX("AddIVx", value)
                         [] lo = 41 -> OpX("LdFVx", value)
                         [] lo = 51 -> OpX("LdBVx", value)
                         [] lo = 85 -> OpX("LdIVx", value)
                         [] lo = 101 -> OpX("LdVxI", value)
                         [] OTHER -> OpInvalid(value)

\* TryFrom<[u8; 2]> for Opcode: u16::from_be_bytes
DecodeBytes(bytes) == Decode(bytes[1] * 256 + bytes[2])

(***************************************************************************)
(* Emulator (emulator/emulator.rs).  An emulator value e is the record of  *)
(* its fields; State is [tag, x] with x meaningful for WaitingKey only.    *)
(***************************************************************************)
StateNew == [tag |-> "New", x |-> 0]
StateRunning == [tag |-> "Running", x |-> 0]
StateWaitingKey(x) == [tag |-> "WaitingKey", x |-> x]

\* no opcode was fetched
NoOpcode == Arm("None", 0, 0, 0, 0, 0, 0)

\* Emulator::new
Emulator_new ==
    [pc |-> ENTRY_POINT, i |-> Address_new(0), registers |-> VRegisters_default,
     sound_timer |-> Timer_new, delay_timer |-> Timer_new, stack |-> Stack_new,
     memory |-> Memory_new, display |-> Display_new, keyboard |-> KeyBoard_default,
     state |-> StateNew]

\* Emulator::load_rom that falls back to State::New when the load fails
Emulator_load_rom_to_new(e, reader) ==
    LET reset == [e EXCEPT !.pc = ENTRY_POINT, !.i = Address_new(0),
                           !.delay_timer = Timer_new, !.sound_timer = Timer_new,
                           !.registers = VRegisters_default,
                           !.stack = Stack_clear(e.stack),
                           !.display = Display_clear(e.display)]
        mem   == Memory_load_rom(e.memory, reader)
        e1    == [reset EXCEPT !.memory = mem.ram]
    IN IF mem.err # Ok
       THEN [e |-> [e1 EXCEPT !.state = StateNew], err |-> mem.err]
       ELSE [e |-> [e1 EXCEPT !.state = StateRunning], err |-> Ok]

\* Emulator::load_rom : [e, err]
Emulator_load_rom(e, reader) ==
    LET reset == [e EXCEPT !.pc = ENTRY_POINT, !.i = Address_new(0),
                           !.delay_timer = Timer_new, !.sound_timer = Timer_new,
                           !.registers = VRegisters_default,
                           !.stack = Stack_clear(e.stack),
                           !.display = Display_clear(e.display)]
        mem   == Memory_load_rom(e.memory, reader)
        e1    == [reset EXCEPT !.memory = mem.ram]
    IN IF mem.err # Ok
       THEN [e |-> e1, err |-> mem.err]
       ELSE [e |-> [e1 EXCEPT !.state = StateRunning], err |-> Ok]

Done(e) == [e |-> e, err |-> Ok]
Fail(e, err) == [e |-> e, err |-> err]
SetV(e, r, value) == [e EXCEPT !.registers[r] = value]

\* a skip that is taken whatever the condition
jump_if_always(e, cond) ==
    LET r == add_assign(e.pc, 2)
    IN [e |-> [e EXCEPT !.pc = r.address], err |-> r.err]

\* macro jump_if! : if the condition holds, self.pc.add_assign(2)?
jump_if(e, cond) ==
    IF cond
    THEN LET r == add_assign(e.pc, 2)
         IN [e |-> [e EXCEPT !.pc = r.address], err |-> r.err]
    ELSE Done(e)

\* the `for row in 0..n` loop of the Drw arm; (x, y) were read from V
RECURSIVE DrwRows(_, _, _, _, _, _)
DrwRows(e, x, y, n, row, checks) ==
    IF row >= n
    THEN Done(e)
    ELSE LET addr == Address_try_new(e.i + row)
         IN IF addr.err # Ok
            THEN Fail(e, addr.err)
            ELSE LET r == Display_set(e.display, x, (y % HEIGHT) + row,
                                      MemAt(e.memory, addr.address), checks)
                 IN IF r.panic
                    THEN Fail(e, Err("Panic", 0))
                    ELSE DrwRows([e EXCEPT !.display = r.display,
                                           !.registers[15] = BitOr(@, r.result)],
                                 x, y, n, row + 1, checks)

\* a Sys or Call that pushes the address of the instruction itself
CallTarget_unadvanced(e, address) ==
    LET r == push(e.stack, e.pc - 2)
    IN IF r.err # Ok THEN Fail(e, r.err)
       ELSE Done([e EXCEPT !.stack = r.stack, !.pc = address])

\* the pc of a Sys or Call after the push
CallTarget(e, address) ==
    LET r == push(e.stack, e.pc)
    IN IF r.err # Ok THEN Fail(e, r.err)
       ELSE Done([e EXCEPT !.stack = r.stack, !.pc = address])

\* the Ret arm
RetTarget(e) ==
    LET r == pop(e.stack)
    IN IF r.err # Ok THEN Fail(e, r.err)
       ELSE Done([e EXCEPT !.stack = r.stack, !.pc = r.item])

\* an AddByte that leaves the carry of the addition in V[0xF]
AddByteArm_with_carry(e, x, byte) ==
    LET result == e.registers[x] + byte
        e1 == SetV(e, x, result % 256)
    IN Done(SetV(e1, 15, IF result >= 256 THEN 1 ELSE 0))

\* the AddByte arm: V![x] = V![x].wrapping_add(byte)
AddByteArm(e, x, byte) == Done(SetV(e, x, (e.registers[x] + byte) % 256))

\* an AddRegister that writes the flag before the sum
AddRegisterArm_flag_first(e, x, y) ==
    LET result == e.registers[x] + e.registers[y]
        e1 == SetV(e, 15, IF result >= 256 THEN 1 ELSE 0)
    IN Done(SetV(e1, x, result % 256))

\* the AddRegister arm: the sum in 16 bits, its low byte, then the flag
AddRegisterArm(e, x, y) ==
    LET result == e.registers[x] + e.registers[y]
        e1 == SetV(e, x, result % 256)
    IN Done(SetV(e1, 15, IF result >= 256 THEN 1 ELSE 0))

\* an Invalid arm that fails the tick
InvalidArm_fails(e, data) == Fail(e, Err("InvalidOpcode", data))

\* the Invalid arm: error!() logs the word, nothing else
InvalidArm(e, data) == Done(e)

\* the `match opcode` of Emulator::execute_opcode, pc already advanced
ExecuteArm(e, opcode, rnd, checks) ==
    LET V == e.registers
        x == opcode.x
        y == opcode.y
        byte == opcode.byte
        address == opcode.address
        op == opcode.op
    IN CASE op = "Cls" -> Done([e EXCEPT !.display = Display_clear(e.display)])
         [] op = "Ret" -> RetTarget(e)
         [] op = "Jp" -> Done([e EXCEPT !.pc = address])
         [] op \in {"Sys", "Call"} -> CallTarget(e, address)
         [] op = "SeByte" -> jump_if(e, V[x] = byte)
         [] op = "SneByte" -> jump_if(e, V[x] # byte)
         [] op = "SeRegister" -> jump_if(e, V[x] = V[y])
         [] op = "LdByte" -> Done(SetV(e, x, byte))
         [] op = "AddByte" -> AddByteArm(e, x, byte)
         [] op = "LdRegister" -> Done(SetV(e, x, V[y]))
         [] op = "Or" -> Done(SetV(e, x, BitOr(V[x], V[y])))
         [] op = "And" -> Done(SetV(e, x, BitAnd(V[x], V[y])))
         [] op = "Xor" -> Done(SetV(e, x, BitXor(V[x], V[y])))
         [] op = "AddRegister" -> AddRegisterArm(e, x, y)
         [] op = "Sub" ->
              LET e1 == SetV(e, 15, IF V[x] > V[y] THEN 1 ELSE 0)
              IN Done(SetV(e1, x, (e1.registers[x] - e1.registers[y]) % 256))
         [] op = "Shr" ->
              LET e1 == SetV(e, 15, V[x] % 2)
              IN Done(SetV(e1, x, e1.registers[x] \div 2))
         [] op = "Subn" ->
              LET e1 == SetV(e, 15, IF V[y] > V[x] THEN 1 ELSE 0)
              IN Done(SetV(e1, x, (e1.registers[y] - e1.registers[x]) % 256))
         [] op = "Shl" ->
              LET e1 == SetV(e, 15, (V[x] \div 128) % 2)
              IN Done(SetV(e1, x, (e1.registers[x] * 2) % 256))
         [] op = "SneRegister" -> jump_if(e, V[x] # V[y])
         [] op = "LdI" -> Done([e EXCEPT !.i = address])
         [] op = "JpV0" ->
              LET r == add_assign(e.pc, address + V[0])
              IN [e |-> [e EXCEPT !.pc = r.address], err |-> r.err]
         [] op = "Rnd" -> Done(SetV(e, x, BitAnd(rnd, byte)))
         [] op = "Drw" ->
              LET e1 == SetV(e, 15, 0)
              IN DrwRows(e1, e1.registers[x], e1.registers[y], opcode.n, 0, checks)
         [] op = "Skp" -> jump_if(e, KeyBoard_is_set(e.keyboard, V[x] % 16))
         [] op = "Sknp" -> jump_if(e, ~KeyBoard_is_set(e.keyboard, V[x] % 16))
         [] op = "LdVxDT" -> Done(SetV(e, x, e.delay_timer))
         [] op = "LdVxK" -> Done([e EXCEPT !.state = StateWaitingKey(x)])
         [] op = "LdDTVx" -> Done([e EXCEPT !.delay_timer = V[x]])
         [] op = "LdSTVx" -> Done([e EXCEPT !.sound_timer = V[x]])
         [] op = "AddIVx" ->
              LET r == add_assign(e.i, V[x])
              IN [e |-> [e EXCEPT !.i = r.address], err |-> r.err]
         [] op = "LdFVx" -> Done([e EXCEPT !.i = Address_new((V[x] % 16) * 5)])
         [] op = "LdBVx" ->
              LET r == read_range(e.memory, e.i, bcd(V[x]))
              IN [e |-> [e EXCEPT !.memory = r.ram], err |-> r.err]
         [] op = "LdIVx" ->
              LET r == read_range(e.memory, e.i, RegisterRange(V, 0, x))
              IN [e |-> [e EXCEPT !.memory = r.ram], err |-> r.err]
         [] op = "LdVxI" ->
              LET r == write_range(e.memory, e.i, RegisterRangeLen(0, x))
              IN IF r.err # Ok THEN Fail(e, r.err)
                 ELSE Done([e EXCEPT !.registers =
                                RegisterRangeStore(V, 0, x, r.data)])
         [] op = "Invalid" -> InvalidArm(e, opcode.value)
         [] OTHER -> Done(e)

\* Emulator::execute_opcode : [e, err]
execute_opcode(e, opcode, rnd, checks) ==
    LET inc == add_assign(e.pc, 2)
    IN IF inc.err # Ok
       THEN Fail(e, inc.err)
       ELSE ExecuteArm([e EXCEPT !.pc = inc.address], opcode, rnd, checks)

\* Emulator::fetch_opcode : [err, opcode]
fetch_opcode(e) ==
    LET r == write_range(e.memory, e.pc, 2)
    IN IF r.err # Ok THEN [err |-> r.err, opcode |-> NoOpcode]
       ELSE [err |-> Ok, opcode |-> DecodeBytes(r.data)]

\* a scan 0x0..0xA, that misses the keys A to F
PressedKeys_short(keyboard) == {key \in 0..9 : KeyBoard_is_set(keyboard, key)}

\* the keys 0x0..=0xF that are set
PressedKeys(keyboard) == {key \in 0..15 : KeyBoard_is_set(keyboard, key)}

\* a scan that stops at the highest key that is set
FindKey_highest(keyboard) ==
    CHOOSE key \in PressedKeys(keyboard) :
        \A other \in PressedKeys(keyboard) : key >= other

\* (0..=0xF).find(|&key| self.keyboard.is_set(key))
FindKey(keyboard) ==
    CHOOSE key \in PressedKeys(keyboard) :
        \A other \in PressedKeys(keyboard) : key <= other

\* both timers' decrement in Emulator::tick
DecrementTimers(e) ==
    [e EXCEPT !.sound_timer = Timer_decrement(e.sound_timer),
              !.delay_timer = Timer_decrement(e.delay_timer)]

\* a tick that decrements the timers after a successful execution only
RunTick_timers_last(e, rnd, checks) ==
    LET f == fetch_opcode(e)
    IN IF f.err # Ok
       THEN [e |-> e, err |-> f.err, opcode |-> NoOpcode]
       ELSE LET r == execute_opcode(e, f.opcode, rnd, checks)
            IN [e |-> IF r.err = Ok THEN DecrementTimers(r.e) ELSE r.e,
                err |-> r.err, opcode |-> f.opcode]

\* Emulator::tick from the timer decrement on : [e, err, opcode]
RunTick(e, rnd, checks) ==
    LET e1 == DecrementTimers(e)
        f  == fetch_opcode(e1)
    IN IF f.err # Ok
       THEN [e |-> e1, err |-> f.err, opcode |-> NoOpcode]
       ELSE LET r == execute_opcode(e1, f.opcode, rnd, checks)
            IN [e |-> r.e, err |-> r.err, opcode |-> f.opcode]

\* the WaitingKey arm of Emulator::tick with a key found
KeyFound(e, key) ==
    [e EXCEPT !.registers[e.state.x] = key, !.state = StateRunning]

\* a tick whose timers run on while it waits for a key
Emulator_tick_waiting_timers(e, rnd, checks) ==
    CASE e.state.tag = "New" -> [e |-> e, err |-> Ok, opcode |-> NoOpcode]
      [] e.state.tag = "WaitingKey" ->
           IF PressedKeys(e.keyboard) = {}
           THEN [e |-> DecrementTimers(e), err |-> Ok, opcode |-> NoOpcode]
           ELSE RunTick(KeyFound(e, FindKey(e.keyboard)), rnd, checks)
      [] OTHER -> RunTick(e, rnd, checks)

\* Emulator::tick : [e, err, opcode]
Emulator_tick(e, rnd, checks) ==
    CASE e.state.tag = "New" -> [e |-> e, err |-> Ok, opcode |-> NoOpcode]
      [] e.state.tag = "WaitingKey" ->
           IF PressedKeys(e.keyboard) = {}
           THEN [e |-> e, err |-> Ok, opcode |-> NoOpcode]
           ELSE RunTick(KeyFound(e, FindKey(e.keyboard)), rnd, checks)
      [] OTHER -> RunTick(e, rnd, checks)

(***************************************************************************)
(* The inputs of the model: ROM images, readers, host keys, random bytes.  *)
(***************************************************************************)
\* big-endian bytes of a sequence of 16-bit words
WordsToBytes(ws) ==
    [k \in 1..(2 * Len(ws)) |->
        IF k % 2 = 1 THEN ws[(k + 1) \div 2] \div 256 ELSE ws[k \div 2] % 256]

\* a one-byte ROM: with the zero fill behind it, 0x200 holds JP 0x200
RomHalt == << \h12 >>

\* JP 0x200 and one byte more, for the reader that fails after two bytes
RomCut == << \h12, \h00, \h55 >>

\* sixteen nested calls and their returns, then a Ret on the empty stack:
\* 0x200 SYS 0x206, 0x202 RET, 0x204 JP 0x204,
\* 0x206 + 4(k-1): CALL next, RET (k = 1..15), 0x242 RET
RomCalls ==
    WordsToBytes(<< \h0206, \h00EE, \h1204 >>
                 \o [k \in 1..30 |->
                        IF k % 2 = 1 THEN \h2000 + \h206 + 4 * ((k + 1) \div 2)
                        ELSE \h00EE]
                 \o << \h00EE >>)

\* unbounded recursion with both timers running:
\* LD V0,#30; LD DT,V0; LD V0,#28; LD ST,V0;
\* 0x208 CALL 0x208, 0x20A SYS 0x20E, 0x20C RET, 0x20E JP 0x20E
RomOverflow ==
    WordsToBytes(<< \h6030, \hF015, \h6028, \hF018,
                    \h2208, \h020E, \h00EE, \h120E >>)

\* a Ret on the empty stack with both timers running:
\* LD V0,5; LD DT,V0; LD ST,V0; LD V1,DT; RET; JP 0x20A
RomUnderflow ==
    WordsToBytes(<< \h6005, \hF015, \hF018, \hF107, \h00EE, \h120A >>)

\* LD V0,9; LD DT,V0; LD ST,V0; 0x206 LD V2,K; LD V3,K; LD V2,K; LD V2,#77;
\* LD V4,K; JP 0x206
RomKeys ==
    WordsToBytes(<< \h6009, \hF015, \hF018, \hF20A, \hF30A, \hF20A, \h6277,
                    \hF40A, \h1206 >>)

\* LD V1,3; LD F,V1; DRW V0,V0,5; LD V5,K; DRW V1,V1,2; JP 0x20A
RomDraw ==
    WordsToBytes(<< \h6103, \hF129, \hD005, \hF50A, \hD112, \h120A >>)

\* LD V0,234; LD I,#FFC; LD B,V0; LD I,#FFD; LD B,V0; LD I,#FFE; LD B,V0;
\* LD I,#004; LD B,V0; LD I,#100; LD [I],V3; JP #FFE
RomBounds ==
    WordsToBytes(<< \h60EA, \hAFFC, \hF033, \hAFFD, \hF033, \hAFFE, \hF033,
                    \hA004, \hF033, \hA100, \hF355, \h1FFE >>)

\* JP #FFF
RomFetchEnd == WordsToBytes(<< \h1FFF >>)

\* LD V0,2; 0x202 JP V0,#008; 0x204..0x20C JP #204; 0x20E JP V0,#E00;
\* 0x210 JP #210
RomJumpV0 ==
    WordsToBytes(<< \h6002, \hB008, \h1204, \h1204, \h1204, \h1204, \h1204,
                    \hBE00, \h1210 >>)

\* LD V0,#11; LD V1,#22; LD V2,#33; LD I,#300; LD [I],V0; LD I,#310;
\* LD [I],V2; LD I,#002; LD V2,[I]; 0x212 JP #212
RomRegisters ==
    WordsToBytes(<< \h6011, \h6122, \h6233, \hA300, \hF055, \hA310, \hF255,
                    \hA002, \hF265, \h1212 >>)

\* LD I,#20C; DRW V0,V0,1; DRW V0,V0,1; LD I,#20D; DRW V0,V0,1;
\* 0x20A JP #20A; 0x20C the sprite rows #FF and #00
RomBlit ==
    WordsToBytes(<< \hA20C, \hD001, \hD001, \hA20D, \hD001, \h120A, \hFF00 >>)

\* LD VF,5; LD V1,3; SUB VF,V1; ADD V1,#FE; ADD VF,3; ADD V1,V1;
\* LD V2,#F0; ADD V2,V2; ADD VF,V2; LD VF,#F0; ADD VF,V2; SHR VF;
\* LD VF,#80; SHL VF; SUBN VF,V2; SUB V1,V2; SHR V2; 0x222 JP #222
RomFlags ==
    WordsToBytes(<< \h6F05, \h6103, \h8F15, \h71FE, \h7F03, \h8114, \h62F0,
                    \h8224, \h8F24, \h6FF0, \h8F24, \h8F06, \h6F80, \h8F0E,
                    \h8F27, \h8125, \h8206, \h1222 >>)

\* both timers running, every skip taken once and passed once, then three
\* words that decode to Invalid:
\* LD V2,#30; LD DT,V2; LD ST,V2; LD V0,1;
\* 0x208 SE V0,1; 0x20A JP #20A; 0x20C SE V0,2;
\* 0x20E SNE V0,2; 0x210 JP #210; 0x212 SNE V0,1;
\* 0x214 SE V0,V1; 0x216 SNE V0,V1; 0x218 JP #218; 0x21A LD V1,1;
\* 0x21C SNE V0,V1; 0x21E SE V0,V1; 0x220 JP #220;
\* 0x222 #5011; 0x224 #FFFF; 0x226 #8008; 0x228 JP #228
RomSkips ==
    WordsToBytes(<< \h6230, \hF215, \hF218, \h6001,
                    \h3001, \h120A, \h3002,
                    \h4002, \h1210, \h4001,
                    \h5010, \h9010, \h1218, \h6101,
                    \h9010, \h5010, \h1220,
                    \h5011, \hFFFF, \h8008, \h1228 >>)

\* a frame drawn, cleared, drawn and erased:
\* LD I,#20E; DRW V0,V0,1; CLS; DRW V0,V0,1; DRW V0,V0,1; DRW V0,V0,0;
\* 0x20C JP #20C; 0x20E the sprite row #FF
RomFrame ==
    WordsToBytes(<< \hA20E, \hD001, \h00E0, \hD001, \hD001, \hD000, \h120C,
                    \hFF00 >>)

\* a ROM longer than the 3584 bytes that fit: JP #FFC at 0x200,
\* LD VA,1 at 0xFFC, JP #200 at 0xFFE, a non-zero pattern elsewhere
RomLong ==
    [k \in 1..(MEMORY_SIZE - ENTRY_POINT + MaxExcess) |->
        CASE k = 1 -> \h1F [] k = 2 -> \hFC
          [] k = 3581 -> \h6A [] k = 3582 -> \h01
          [] k = 3583 -> \h12 [] k = 3584 -> \h00
          [] OTHER -> (k % 251) + 1]

Reader(data, script) == [data |-> data, script |-> script]

Readers ==
    { Reader(RomHalt, <<>>),
      Reader(RomCalls, <<>>),
      Reader(RomOverflow, << ShortRead(1), Interrupted, ShortRead(2) >>),
      Reader(RomUnderflow, <<>>),
      Reader(RomKeys, <<>>),
      Reader(RomDraw, <<>>),
      Reader(RomBounds, <<>>),
      Reader(RomFetchEnd, <<>>),
      Reader(RomJumpV0, <<>>),
      Reader(RomRegisters, <<>>),
      Reader(RomBlit, <<>>),
      Reader(RomFlags, <<>>),
      Reader(RomSkips, <<>>),
      Reader(RomFrame, <<>>),
      Reader(RomLong, <<>>),
      Reader(RomCut, << ShortRead(2), Interrupted, IoError >>) }

\* the keys the host presses
HostKeys == {(5 * j) % 16 : j \in 1..MaxHostKeys}

\* the bytes RandGen::next is taken to return
RandBytes == {(165 * r) % 256 : r \in 0..MaxRand}

(***************************************************************************)
(* The state: the fields of Emulator, and what the host saw of its last    *)
(* fallible call (new, load_rom or tick): which call it was, the state it  *)
(* started from, the opcode a tick fetched and the Result returned; `rom`, *)
(* the bytes behind the reader of the last load_rom; and `screen`, the     *)
(* frame the front-end rendered last.                                      *)
(***************************************************************************)
VARIABLES pc, i, registers, sound_timer, delay_timer, stack, memory, display,
          keyboard, state, op, from, opcode, result, rom, screen

\* The tools beside the interpreter (the decoder called on a word, the
\* memory range operations called on a Memory, the assembler called on a
\* source text): `input` is what the tool was given, `stage` how far the
\* call sequence has got, `outcome` what the last call returned and
\* `output` the bytes it delivered.
VARIABLES input, output, outcome, stage

emu_vars == << pc, i, registers, sound_timer, delay_timer, stack, memory,
               display, keyboard, state >>
tool_vars == << input, output, outcome, stage >>
vars == << pc, i, registers, sound_timer, delay_timer, stack, memory, display,
           keyboard, state, op, from, opcode, result, rom, screen,
           input, output, outcome, stage >>

\* the emulator value the variables hold
Emu ==
    [pc |-> pc, i |-> i, registers |-> registers, sound_timer |-> sound_timer,
     delay_timer |-> delay_timer, stack |-> stack, memory |-> memory,
     display |-> display, keyboard |-> keyboard, state |-> state]

\* the variables take the fields of e
Becomes(e) ==
    /\ pc' = e.pc
    /\ i' = e.i
    /\ registers' = e.registers
    /\ sound_timer' = e.sound_timer
    /\ delay_timer' = e.delay_timer
    /\ stack' = e.stack
    /\ memory' = e.memory
    /\ display' = e.display
    /\ keyboard' = e.keyboard
    /\ state' = e.state

\* no tool has been called
NotRun == [kind |-> "NotRun", value |-> 0]

\* the interpreter as Emulator::new leaves it
Constructed ==
    /\ pc = Emulator_new.pc
    /\ i = Emulator_new.i
    /\ registers = Emulator_new.registers
    /\ sound_timer = Emulator_new.sound_timer
    /\ delay_timer = Emulator_new.delay_timer
    /\ stack = Emulator_new.stack
    /\ memory = Emulator_new.memory
    /\ display = Emulator_new.display
    /\ keyboard = Emulator_new.keyboard
    /\ state = Emulator_new.state
    /\ op = "new"
    /\ from = StateNew
    /\ opcode = NoOpcode
    /\ result = Ok
    /\ rom = << >>
    /\ screen = BlankVram

Init ==
    /\ Constructed
    /\ input = << >>
    /\ output = << >>
    /\ outcome = NotRun
    /\ stage = "idle"

\* a panic unwinds out of the emulator: nothing is called after it
Alive == result.kind # "Panic"

\* the host loads a ROM
LoadRom ==
    /\ Alive
    /\ \E reader \in Readers :
         LET r == Emulator_load_rom(Emu, reader)
         IN /\ Becomes(r.e)
            /\ result' = r.err
            /\ rom' = reader.data
    /\ op' = "load_rom"
    /\ from' = state
    /\ opcode' = NoOpcode
    /\ UNCHANGED << screen, input, output, outcome, stage >>

\* the host calls tick
Tick ==
    /\ Alive
    /\ \E rnd \in RandBytes, checks \in BOOLEAN :
         LET r == Emulator_tick(Emu, rnd, checks)
         IN /\ Becomes(r.e)
            /\ result' = r.err
            /\ opcode' = r.opcode
    /\ op' = "tick"
    /\ from' = state
    /\ UNCHANGED << rom, screen, input, output, outcome, stage >>

\* the host forwards a key press: emulator.keyboard.set(key)
PressKey ==
    /\ Alive
    /\ \E key \in HostKeys : keyboard' = KeyBoard_set(keyboard, key)
    /\ UNCHANGED << pc, i, registers, sound_timer, delay_timer, stack, memory,
                    display, state, op, from, opcode, result, rom, screen,
                    input, output, outcome, stage >>

\* the host forwards a key release: emulator.keyboard.unset(key)
ReleaseKey ==
    /\ Alive
    /\ \E key \in HostKeys : keyboard' = KeyBoard_unset(keyboard, key)
    /\ UNCHANGED << pc, i, registers, sound_timer, delay_timer, stack, memory,
                    display, state, op, from, opcode, result, rom, screen,
                    input, output, outcome, stage >>

\* the front-end's frame: when display.updated, copy the pixels and clear it
Render ==
    /\ Alive
    /\ display.updated
    /\ screen' = display.vram
    /\ display' = [display EXCEPT !.updated = FALSE]
    /\ UNCHANGED << pc, i, registers, sound_timer, delay_timer, stack, memory,
                    keyboard, state, op, from, opcode, result, rom,
                    input, output, outcome, stage >>

Next == LoadRom \/ Tick \/ PressKey \/ ReleaseKey \/ Render

Spec == Init /\ [][Next]_vars

(***************************************************************************)
(* The host that keeps calling tick: the tick that would end a key wait   *)
(* is not put off for ever.                                                *)
(***************************************************************************)
\* the tick the host calls while the emulator waits for a key
WaitingTick == state.tag = "WaitingKey" /\ Tick

\* a key is down while the emulator waits: WaitingTick then changes the
\* state or PC, so <<WaitingTick>>_vars is enabled
KeyHeldInWait == state.tag = "WaitingKey" /\ keyboard # 0 /\ Alive

\* Weak fairness of WaitingTick, with KeyHeldInWait standing for the
\* enabling condition it implies: either the wait with a key down is left
\* again and again, or the tick is taken again and again.
LiveSpec == Spec /\ ([]<>~KeyHeldInWait \/ []<><<WaitingTick>>_vars)

(***************************************************************************)
(* Properties.  Every step of Next is a LoadRom step, a TickStep step or a     *)
(* HostStep; the first two record themselves in op, which a HostStep       *)
(* leaves alone.  Up to stuttering, LoadStep is therefore LoadRom and      *)
(* TickStep is TickStep.                                                       *)
(***************************************************************************)
HostStep == PressKey \/ ReleaseKey \/ Render

LoadStep == op' = "load_rom" /\ ~HostStep

TickStep == op' = "tick" /\ ~HostStep

\* the steps LoadStep and TickStep name are those of LoadRom and Tick
StepsNamed == [][(LoadStep => LoadRom) /\ (TickStep => Tick)]_vars
\* a timer value one tick later
Decremented(t) == IF t = 0 THEN 0 ELSE t - 1

\* the instruction stored at address a, big-endian
InstructionAt(a) == Decode(MemAt(memory, a) * 256 + MemAt(memory, a + 1))

\* no bit of the keyboard mask is set
NoKeyPressed == \A key \in 0..15 : (keyboard \div Pow2(key)) % 2 = 0

\* the lowest-numbered key whose bit is set in the keyboard mask
LowestKey ==
    CHOOSE key \in 0..15 :
        /\ (keyboard \div Pow2(key)) % 2 = 1
        /\ \A other \in 0..(key - 1) : (keyboard \div Pow2(other)) % 2 = 0

\* C1: the state changes only along New -> Running by a successful
\* load_rom, Running -> WaitingKey{x} by a tick that executes LdVxK{x}, and
\* WaitingKey{x} -> Running by a tick that sees a pressed key or by a
\* successful load_rom; a tick that sees a pressed key may end in
\* WaitingKey{y} only by executing LdVxK{y}; nothing returns the state to
\* New, and press_key / release_key leave the state alone.
C1_StateEdges ==
    [][ /\ state' # state =>
            \/ /\ state = StateNew
               /\ state' = StateRunning
               /\ LoadStep /\ result' = Ok
            \/ /\ state = StateRunning
               /\ state' = StateWaitingKey(opcode'.x)
               /\ TickStep /\ opcode'.op = "LdVxK" /\ result' = Ok
            \/ /\ state.tag = "WaitingKey"
               /\ state' = StateRunning
               /\ \/ TickStep /\ ~NoKeyPressed
                  \/ LoadStep /\ result' = Ok
            \/ /\ state.tag = "WaitingKey"
               /\ state' = StateWaitingKey(opcode'.x)
               /\ TickStep /\ ~NoKeyPressed /\ opcode'.op = "LdVxK"
        /\ state'.tag = "New" => state.tag = "New"
        /\ (LoadStep /\ result' = Ok) => state' = StateRunning
        /\ (TickStep /\ state.tag = "Running" /\ opcode'.op = "LdVxK")
              => state' = StateWaitingKey(opcode'.x)
        /\ (PressKey \/ ReleaseKey) => state' = state
      ]_vars

\* C1 happens: a tick that saw a pressed key took WaitingKey to Running
C1_Witness ==
    /\ op = "tick"
    /\ from.tag = "WaitingKey"
    /\ state = StateRunning
    /\ result = Ok

\* C2: a tick in state Running decrements both timers, fetches the word at
\* PC, adds 2 to PC and then executes: a failed fetch leaves the timers
\* decremented and PC in place; the instruction executed is the one PC
\* pointed at; LdVxDT reads the decremented delay timer; and when Ret fails
\* on the empty stack or Call/Sys on the full one, tick returns the error
\* with both timers decremented, PC advanced by 2 and the stack, and all
\* the rest, unchanged.
C2_TickOrder ==
    [][ (TickStep /\ state.tag = "Running") =>
          /\ delay_timer' = Decremented(delay_timer) \/ opcode'.op = "LdDTVx"
          /\ sound_timer' = Decremented(sound_timer) \/ opcode'.op = "LdSTVx"
          /\ opcode' = NoOpcode => result'.kind = "OutOfBounds" /\ pc' = pc
          /\ opcode' # NoOpcode => opcode' = InstructionAt(pc)
          /\ (opcode'.op = "LdVxDT" /\ result' = Ok) =>
                /\ registers'[opcode'.x] = Decremented(delay_timer)
                /\ pc' = pc + 2
          /\ result'.kind \in {"StackUnderFlow", "StackOverFlow"} =>
                /\ opcode'.op \in {"Ret", "Sys", "Call"}
                /\ delay_timer' = Decremented(delay_timer)
                /\ sound_timer' = Decremented(sound_timer)
                /\ pc' = pc + 2
                /\ stack' = stack
                /\ UNCHANGED << i, registers, memory, display, keyboard, state >>
      ]_vars

\* C2 happens: a Call on the full stack failed while both timers ran
C2_Witness ==
    /\ op = "tick"
    /\ from = StateRunning
    /\ opcode.op = "Call"
    /\ result.kind = "StackOverFlow"
    /\ delay_timer > 0
    /\ sound_timer > 0

\* C3: a tick in state New, or in WaitingKey{x} with no key 0x0..0xF
\* pressed, returns Ok and changes nothing: PC, I, V, both timers, stack,
\* memory, display with `updated`, keyboard and state stay as they were.
C3_NoOpTick ==
    [][ (TickStep /\ (state.tag = "New" \/ (state.tag = "WaitingKey" /\ NoKeyPressed)))
          => /\ result' = Ok
             /\ opcode' = NoOpcode
             /\ UNCHANGED emu_vars
      ]_vars

\* C3 happens: a tick found the emulator waiting with no key down, both
\* timers still running and the display marked updated
C3_Witness ==
    /\ op = "tick"
    /\ from.tag = "WaitingKey"
    /\ state = from
    /\ opcode = NoOpcode
    /\ keyboard = 0
    /\ delay_timer > 0
    /\ sound_timer > 0

\* C4: a tick in state WaitingKey{x} with a key pressed sets V[x] to the
\* lowest-numbered pressed key, makes the state Running and goes on, in the
\* same tick, with the timer decrement and the fetch and execution of the
\* instruction PC points at, the one after the LdVxK: PC ends 2 further (or
\* at the target of a jump), never on the LdVxK again; the state is Running
\* afterwards unless the instruction executed is itself LdVxK{y}.
C4_KeyCaptured ==
    [][ (TickStep /\ state.tag = "WaitingKey" /\ ~NoKeyPressed) =>
          LET captured == [registers EXCEPT ![state.x] = LowestKey]
              next == InstructionAt(pc)
          IN /\ opcode' = next
             /\ delay_timer' = Decremented(delay_timer) \/ next.op = "LdDTVx"
             /\ sound_timer' = Decremented(sound_timer) \/ next.op = "LdSTVx"
             /\ result' = Ok =>
                  /\ state' = IF next.op = "LdVxK" THEN StateWaitingKey(next.x)
                              ELSE StateRunning
                  /\ next.op \in {"LdVxK", "Jp"} => registers' = captured
                  /\ next.op = "LdByte" =>
                        registers' = [captured EXCEPT ![next.x] = next.byte]
                  /\ next.op = "Drw" =>
                        \A r \in 0..14 : registers'[r] = captured[r]
                  /\ pc' = IF next.op = "Jp" THEN next.address ELSE pc + 2
                  /\ next.op # "Drw" => display' = display
                  /\ UNCHANGED << i, stack, memory, keyboard >>
      ]_vars

\* C4 happens: with keys 5 and A both down, the tick that ended the wait of
\* LD V4,K put 5 in V4 and executed the jump behind it
C4_Witness ==
    /\ op = "tick"
    /\ from = StateWaitingKey(4)
    /\ state = StateRunning
    /\ opcode.op = "Jp"
    /\ result = Ok
    /\ registers[4] = 5
    /\ keyboard = Pow2(5) + Pow2(10)

C6_CallRet ==
    /\ [](\A k \in 1..Len(stack) :
            InstructionAt(stack[k] - 2).op \in {"Call", "Sys"})
    /\ [][ /\ (TickStep /\ opcode'.op \in {"Call", "Sys"} /\ result' = Ok) =>
                /\ stack' = Append(stack, pc + 2)
                /\ pc' = opcode'.address
           /\ (TickStep /\ opcode'.op = "Ret" /\ result' = Ok) =>
                /\ stack # << >>
                /\ stack = Append(stack', pc')
                /\ InstructionAt(pc' - 2).op \in {"Call", "Sys"}
         ]_vars

\* C6 happens: the Ret of the sixteenth nested call went back behind that
\* call and left fifteen return addresses, the first one pushed by a Sys
C6_Witness ==
    /\ op = "tick"
    /\ opcode.op = "Ret"
    /\ result = Ok
    /\ Len(stack) = 15
    /\ InstructionAt(pc - 2).op = "Call"
    /\ InstructionAt(stack[1] - 2).op = "Sys"

\* C7: the stack depth is always in 0..16; the push of a Call or Sys fails
\* with StackOverFlow exactly when the depth is 16 and the pop of a Ret
\* fails with StackUnderFlow exactly when the depth is 0; a push or pop
\* that succeeds moves the depth by one, one that fails leaves the stack
\* as it was, and load_rom empties it.
C7_StackDepth ==
    /\ [](Len(stack) \in 0..16)
    /\ [][ /\ (TickStep /\ opcode'.op \in {"Call", "Sys"}) =>
                /\ result'.kind = "StackOverFlow" <=> Len(stack) = 16
                /\ result' = Ok => Len(stack') = Len(stack) + 1
           /\ (TickStep /\ opcode'.op = "Ret") =>
                /\ result'.kind = "StackUnderFlow" <=> Len(stack) = 0
                /\ result' = Ok => Len(stack') = Len(stack) - 1
           /\ (TickStep /\ result'.kind \in {"StackOverFlow", "StackUnderFlow"})
                => stack' = stack
           /\ LoadStep => stack' = << >>
         ]_vars

\* C7 happens: the seventeenth push failed and the sixteen entries stayed
C7_Witness ==
    /\ op = "tick"
    /\ result.kind = "StackOverFlow"
    /\ Len(stack) = 16
    /\ \A k \in 1..16 : stack[k] = \h20A

\* C8: right after a successful load_rom, whatever memory held before,
\* memory is the 80-byte font table at [0x000, 0x050) (glyph d at d * 5),
\* zeros at [0x050, 0x200), the first min(|rom|, 3584) bytes of the ROM
\* from 0x200 and zeros from there to 0xFFF; a reader with more than 3584
\* bytes loads as well and the excess is ignored.
C8_MemoryImage ==
    (op = "load_rom" /\ result = Ok) =>
        LET kept == IF Len(rom) < 3584 THEN Len(rom) ELSE 3584
        IN /\ Len(memory) = 4096
           /\ SubSeq(memory, 1, 80) = FONT_SET
           /\ SubSeq(memory, 1, 5) = << 240, 144, 144, 144, 240 >>
           /\ SubSeq(memory, 5 * 7 + 1, 5 * 7 + 5) = << 240, 16, 32, 64, 64 >>
           /\ SubSeq(memory, 5 * 15 + 1, 5 * 15 + 5) = << 240, 128, 240, 128, 128 >>
           /\ \A a \in 80..511 : MemAt(memory, a) = 0
           /\ SubSeq(memory, 513, 512 + kept) = SubSeq(rom, 1, kept)
           /\ \A a \in (512 + kept)..4095 : MemAt(memory, a) = 0

\* C8 happens: a ROM longer than 3584 bytes was loaded over a running
\* program and fills memory to the end, with bytes left over in the reader
C8_Witness ==
    /\ op = "load_rom"
    /\ result = Ok
    /\ from = StateRunning
    /\ Len(rom) > 3584
    /\ MemAt(memory, 4094) = rom[3583]
    /\ rom[3583] # 0
    /\ rom[3585] # 0

\* C9: a successful load_rom, from any state, leaves PC = 0x200, I = 0, all
\* sixteen V registers 0, both timers 0, the stack empty, every pixel off
\* with `updated` set and the state Running, and the keyboard as it was.
C9_LoadResets ==
    [][ (LoadStep /\ result' = Ok) =>
          /\ pc' = 512
          /\ i' = 0
          /\ registers' = [r \in 0..15 |-> 0]
          /\ delay_timer' = 0
          /\ sound_timer' = 0
          /\ stack' = << >>
          /\ display'.updated
          /\ \A x \in 0..63, y \in 0..31 : ~display'.vram[x][y]
          /\ state' = StateRunning
          /\ keyboard' = keyboard
      ]_vars

\* C9 happens: a ROM was loaded while the emulator waited for a key, with a
\* key down and a drawn frame on the screen
C9_Witness ==
    /\ op = "load_rom"
    /\ result = Ok
    /\ from.tag = "WaitingKey"
    /\ keyboard # 0
    /\ screen # BlankVram
    /\ state = StateRunning
    /\ display.updated

\* C10: a range of n bytes at address a is rejected with OutOfBounds if and
\* only if a + n > 0x1000: the fetch of a tick fails only when PC + 2 >
\* 0x1000, and LdBVx fails exactly when I + 3 > 0x1000.
C10_RangeBound ==
    /\ (op = "tick" /\ opcode = NoOpcode /\ result.kind = "OutOfBounds")
          => pc + 2 > 4096
    /\ (op = "tick" /\ opcode.op = "LdBVx")
          => (result.kind = "OutOfBounds" <=> i + 3 > 4096)

\* C11: JpV0{addr} sets PC to the absolute address addr + V[0], whatever
\* the PC the instruction was fetched at, and fails with InvalidAddress
\* exactly when addr + V[0] > 0xFFF.
C11_JpV0Absolute ==
    [][(TickStep /\ state.tag = "Running" /\ opcode'.op = "JpV0")
          => IF opcode'.address + registers[0] > \hFFF
             THEN result'.kind = "InvalidAddress"
             ELSE result' = Ok /\ pc' = opcode'.address + registers[0]]_vars

\* the registers V[0]..V[x] as a sequence of x + 1 bytes
RegistersUpTo(x) == [k \in 1..(x + 1) |-> registers[k - 1]]

\* C12: a successful LdIVx{x} copies exactly the x + 1 registers V[0]..V[x]
\* to memory[I]..memory[I+x], and a successful LdVxI{x} copies exactly
\* memory[I]..memory[I+x] into V[0]..V[x]; the registers above x, the memory
\* outside the range and I are unchanged.
C12_BlockCopy ==
    [][/\ (TickStep /\ state.tag = "Running" /\ opcode'.op = "LdIVx"
             /\ result' = Ok)
          => /\ memory' = Splice(memory, i, RegistersUpTo(opcode'.x))
             /\ registers' = registers
             /\ i' = i
       /\ (TickStep /\ state.tag = "Running" /\ opcode'.op = "LdVxI"
             /\ result' = Ok)
          => /\ \A r \in 0..(REGISTER_COUNT - 1) :
                   registers'[r] = IF r <= opcode'.x
                                   THEN MemAt(memory, i + r)
                                   ELSE registers[r]
             /\ memory' = memory
             /\ i' = i]_vars

\* a tick from Running executed Drw and returned Ok
DrwStep ==
    TickStep /\ state.tag = "Running" /\ opcode'.op = "Drw" /\ result' = Ok

\* the coordinates a Drw reads, after it has zeroed V[0xF]
DrwX == IF opcode'.x = 15 THEN 0 ELSE registers[opcode'.x]
DrwY == IF opcode'.y = 15 THEN 0 ELSE registers[opcode'.y]

\* bit b of a sprite byte, the most significant bit being bit 0
SpriteBit(byte, b) == (byte \div Pow2(7 - b)) % 2 = 1

\* the sprite byte covers column c of its row when blitted at column x
Covers(x, byte, c) ==
    \E b \in 0..7 : c = (x + b) % WIDTH /\ SpriteBit(byte, b)

\* some pixel lit in `before` is unlit in `after`
Erased(before, after) ==
    \E c \in 0..(WIDTH - 1), r \in 0..(HEIGHT - 1) :
        before[c][r] /\ ~after[c][r]

\* the cleared display with one sprite byte blitted at (x, y)
SpriteRow(x, y, byte) ==
    [c \in 0..(WIDTH - 1) |->
        [r \in 0..(HEIGHT - 1) |-> r = y % HEIGHT /\ Covers(x, byte, c)]]

\* C13: Display.set(x, y, byte) returns 1 if and only if at least one of
\* the target pixels was lit before the call and is unlit after it,
\* otherwise 0: a one-row Drw leaves that return value in V[0xF].
C13_CollisionFlag ==
    [][(DrwStep /\ opcode'.n = 1)
          => registers'[15] =
                IF Erased(display.vram, display'.vram) THEN 1 ELSE 0]_vars

\* C14: a blit on a cleared display returns 0 and lights the set bits of
\* the byte; the same byte blitted at the same position again returns 1
\* (when the byte has a set bit) and leaves the display cleared as before.
C14_BlitTwice ==
    [][(DrwStep /\ opcode'.n = 1)
          => LET byte == MemAt(memory, i)
             IN /\ display.vram = BlankVram
                     => /\ registers'[15] = 0
                        /\ display'.vram = SpriteRow(DrwX, DrwY, byte)
                /\ (byte # 0 /\ display.vram = SpriteRow(DrwX, DrwY, byte))
                     => /\ registers'[15] = 1
                        /\ display'.vram = BlankVram]_vars

\* C15: after Drw{x, y, n}, V[0xF] is 1 if at least one of the n row blits
\* erased a lit pixel and 0 otherwise, where row r XORs memory[I + r] at
\* column V[x] and row ((V[y] mod 32) + r) mod 32.
C15_DrwFlag ==
    [][DrwStep
          => /\ \A c \in 0..(WIDTH - 1), r \in 0..(HEIGHT - 1) :
                   display'.vram[c][r] =
                      (display.vram[c][r] #
                         (\E row \in 0..(opcode'.n - 1) :
                             /\ r = ((DrwY % HEIGHT) + row) % HEIGHT
                             /\ Covers(DrwX, MemAt(memory, i + row), c)))
             /\ registers'[15] =
                   IF Erased(display.vram, display'.vram) THEN 1 ELSE 0]_vars

\* a tick from Running fetched an instruction of the arm `name`
Executes(name) == TickStep /\ state.tag = "Running" /\ opcode'.op = name

\* a tick from Running executed the arm `name` and returned Ok
ArmStep(name) == Executes(name) /\ result' = Ok

\* the operands of the instruction the step executed, before the step
Vx == registers[opcode'.x]
Vy == registers[opcode'.y]

\* C16: right after a tick that executes AddReg, Sub, Subn, Shr, Shl or
\* Drw, V[0xF] holds the flag that instruction produced from its operands,
\* hence 0 or 1, for every x and y, x = 0xF included.
C16_FlagRegister ==
    [][/\ ArmStep("AddRegister")
            => registers'[15] = (IF Vx + Vy > 255 THEN 1 ELSE 0)
       /\ ArmStep("Sub") => registers'[15] = (IF Vx > Vy THEN 1 ELSE 0)
       /\ ArmStep("Subn") => registers'[15] = (IF Vy > Vx THEN 1 ELSE 0)
       /\ ArmStep("Shr") => registers'[15] = Vx % 2
       /\ ArmStep("Shl") => registers'[15] = Vx \div 128
       /\ ArmStep("Drw") => registers'[15] \in {0, 1}]_vars

\* C17: AddReg{x, y} with s = V[x] + V[y] of the values before the
\* instruction: afterwards V[0xF] = 1 iff s > 0xFF, else 0; V[x] = s mod 256
\* for x # 0xF; for x = 0xF V[0xF] is the carry, not the sum; the other
\* registers keep their values.
C17_AddReg ==
    [][Executes("AddRegister")
          => /\ result' = Ok
             /\ registers'[15] = (IF Vx + Vy > \hFF THEN 1 ELSE 0)
             /\ opcode'.x # 15 => registers'[opcode'.x] = (Vx + Vy) % 256
             /\ \A r \in 0..14 : r # opcode'.x => registers'[r] = registers[r]
       ]_vars

\* ADD VF,V2 with VF = #F0 and V2 = #E0 has run: the sum #1D0 left the
\* carry 1 in VF, not its low byte #D0
C17_Witness ==
    /\ op = "tick"
    /\ from = StateRunning
    /\ result = Ok
    /\ opcode.op = "AddRegister"
    /\ opcode.x = 15
    /\ opcode.y = 2
    /\ registers[2] = \hE0
    /\ registers[15] = 1
    /\ rom = RomFlags
    /\ pc = \h216

\* C18: AddByte{x, kk} sets V[x] to (V[x] + kk) mod 256 and changes no
\* other register: for x # 0xF, V[0xF] keeps its value even when the
\* addition overflows.
C18_AddByte ==
    [][Executes("AddByte")
          => /\ result' = Ok
             /\ registers' =
                   [registers EXCEPT ![opcode'.x] = (Vx + opcode'.byte) % 256]
       ]_vars

\* ADD V1,#FE with V1 = 3 has run: the addition overflowed to 1 and VF
\* still holds the 254 it held before
C18_Witness ==
    /\ op = "tick"
    /\ from = StateRunning
    /\ result = Ok
    /\ opcode.op = "AddByte"
    /\ opcode.x = 1
    /\ opcode.byte = \hFE
    /\ registers[1] = 1
    /\ registers[15] = 254
    /\ rom = RomFlags

\* the four skip instructions
Skips == {"SeByte", "SneByte", "SeRegister", "SneRegister"}

\* the condition of the skip the step executed, on the values before it
SkipCondition ==
    CASE opcode'.op = "SeByte" -> Vx = opcode'.byte
      [] opcode'.op = "SneByte" -> Vx # opcode'.byte
      [] opcode'.op = "SeRegister" -> Vx = Vy
      [] opcode'.op = "SneRegister" -> Vx # Vy

\* C19: a skip instruction (SeByte, SneByte, SeReg, SneReg) fetched at p
\* with p + 4 <= 0xFFF leaves PC = p + 4 if its condition holds and
\* PC = p + 2 otherwise; registers, I, memory, stack and display keep
\* their content.
C19_Skips ==
    [][(TickStep /\ state.tag = "Running" /\ opcode'.op \in Skips
          /\ pc + 4 <= \hFFF)
          => /\ result' = Ok
             /\ pc' = (IF SkipCondition THEN pc + 4 ELSE pc + 2)
             /\ registers' = registers
             /\ i' = i
             /\ memory' = memory
             /\ stack' = stack
             /\ display' = display]_vars

\* the SE V0,V1 at 0x21E of RomSkips has run with V0 = V1 = 1 and skipped
\* the word at 0x220
C19_Witness ==
    /\ op = "tick"
    /\ from = StateRunning
    /\ result = Ok
    /\ opcode.op = "SeRegister"
    /\ registers[0] = 1
    /\ registers[1] = 1
    /\ rom = RomSkips
    /\ pc = \h222

\* C20: a tick that fetches a word decoding to Invalid(w) returns Ok; it
\* decrements the timers and adds 2 to PC, the state stays Running and
\* nothing else changes.
C20_InvalidSkipped ==
    [][Executes("Invalid")
          => /\ result' = Ok
             /\ opcode' = OpInvalid(MemAt(memory, pc) * 256 + MemAt(memory, pc + 1))
             /\ pc' = pc + 2
             /\ state' = StateRunning
             /\ sound_timer' = Decremented(sound_timer)
             /\ delay_timer' = Decremented(delay_timer)
             /\ registers' = registers
             /\ i' = i
             /\ memory' = memory
             /\ stack' = stack
             /\ display' = display
             /\ keyboard' = keyboard]_vars

\* the word #FFFF at 0x224 of RomSkips has been skipped with both timers
\* running
C20_Witness ==
    /\ op = "tick"
    /\ from = StateRunning
    /\ result = Ok
    /\ opcode = OpInvalid(\hFFFF)
    /\ state = StateRunning
    /\ delay_timer > 0
    /\ sound_timer > 0
    /\ rom = RomSkips
    /\ pc = \h226

(***************************************************************************)
(* The decoder on its own: a 16-bit word is given, TryFrom<u16> is called  *)
(* on it, and the arm it returns is encoded again.                         *)
(***************************************************************************)
\* the x nibbles of the words given to the decoder
MaxRegisters == 15

SampleRegisters == {(15 * k) % 16 : k \in 0..MaxRegisters}

\* the words given: every high nibble and low byte, x from SampleRegisters
Words ==
    {hi * 4096 + x * 256 + lo :
        hi \in 0..15, x \in SampleRegisters, lo \in 0..255}

\* a decoder that rejects the words that match no arm
Opcode_try_from_rejecting(value) ==
    IF Decode(value).op = "Invalid"
    THEN [err |-> Err("InvalidOpcode", value), opcode |-> NoOpcode]
    ELSE [err |-> Ok, opcode |-> Decode(value)]

\* TryFrom<u16> for Opcode as a Result: the `?` of register!() is the only
\* way out with an error
Opcode_try_from(value) ==
    LET arm == Decode(value)
        x   == RegisterIndex_try_new(nibble(value, 1))
        y   == RegisterIndex_try_new(nibble(value, 2))
    IN IF x.err # Ok THEN [err |-> x.err, opcode |-> NoOpcode]
       ELSE IF y.err # Ok THEN [err |-> y.err, opcode |-> NoOpcode]
       ELSE [err |-> Ok, opcode |-> arm]

\* u16::to_be_bytes
to_be_bytes(data) == << data \div 256, data % 256 >>

\* u16::from_be_bytes
from_be_bytes(bytes) == bytes[1] * 256 + bytes[2]

\* the word of four nibbles, of a nibble and an address, of a nibble, a
\* register and a byte
WordSXYN(s, x, y, n) == s * 4096 + x * 256 + y * 16 + n
WordSNNN(s, nnn) == s * 4096 + nnn
WordSXKK(s, x, kk) == s * 4096 + x * 256 + kk

\* a table that encodes SHR Vx with y = 0
Canonical_shr_zero(arm) ==
    IF arm.op = "Shr" THEN WordSXYN(8, arm.x, 0, 6) ELSE WordSXYN(8, arm.x, 0, 14)

\* the bit pattern the assembler's templates give the shifts
CanonicalShift(arm) ==
    IF arm.op = "Shr" THEN WordSXYN(8, arm.x, 1, 6) ELSE WordSXYN(8, arm.x, 0, 14)

\* the bit pattern the assembler's template emits for a non-Invalid arm
Canonical(arm) ==
    LET o == arm.op
    IN CASE o = "Cls" -> WordSXYN(0, 0, 14, 0)
         [] o = "Ret" -> WordSXYN(0, 0, 14, 14)
         [] o = "Sys" -> WordSNNN(0, arm.address)
         [] o = "Jp" -> WordSNNN(1, arm.address)
         [] o = "Call" -> WordSNNN(2, arm.address)
         [] o = "SeByte" -> WordSXKK(3, arm.x, arm.byte)
         [] o = "SneByte" -> WordSXKK(4, arm.x, arm.byte)
         [] o = "SeRegister" -> WordSXYN(5, arm.x, arm.y, 0)
         [] o = "LdByte" -> WordSXKK(6, arm.x, arm.byte)
         [] o = "AddByte" -> WordSXKK(7, arm.x, arm.byte)
         [] o = "LdRegister" -> WordSXYN(8, arm.x, arm.y, 0)
         [] o = "Or" -> WordSXYN(8, arm.x, arm.y, 1)
         [] o = "And" -> WordSXYN(8, arm.x, arm.y, 2)
         [] o = "Xor" -> WordSXYN(8, arm.x, arm.y, 3)
         [] o = "AddRegister" -> WordSXYN(8, arm.x, arm.y, 4)
         [] o = "Sub" -> WordSXYN(8, arm.x, arm.y, 5)
         [] o \in {"Shr", "Shl"} -> CanonicalShift(arm)
         [] o = "Subn" -> WordSXYN(8, arm.x, arm.y, 7)
         [] o = "SneRegister" -> WordSXYN(9, arm.x, arm.y, 0)
         [] o = "LdI" -> WordSNNN(10, arm.address)
         [] o = "JpV0" -> WordSNNN(11, arm.address)
         [] o = "Rnd" -> WordSXKK(12, arm.x, arm.byte)
         [] o = "Drw" -> WordSXYN(13, arm.x, arm.y, arm.n)
         [] o = "Skp" -> WordSXYN(14, arm.x, 9, 14)
         [] o = "Sknp" -> WordSXYN(14, arm.x, 10, 1)
         [] o = "LdVxDT" -> WordSXYN(15, arm.x, 0, 7)
         [] o = "LdVxK" -> WordSXYN(15, arm.x, 0, 10)
         [] o = "LdDTVx" -> WordSXYN(15, arm.x, 1, 5)
         [] o = "LdSTVx" -> WordSXYN(15, arm.x, 1, 8)
         [] o = "AddIVx" -> WordSXYN(15, arm.x, 1, 14)
         [] o = "LdFVx" -> WordSXYN(15, arm.x, 2, 9)
         [] o = "LdBVx" -> WordSXYN(15, arm.x, 3, 3)
         [] o = "LdIVx" -> WordSXYN(15, arm.x, 5, 5)
         [] o = "LdVxI" -> WordSXYN(15, arm.x, 6, 5)

\* what the host saw of the interpreter's last call
host_vars == << op, from, opcode, result, rom, screen >>

DecInit ==
    /\ Constructed
    /\ input \in Words
    /\ output = << >>
    /\ outcome = NotRun
    /\ stage = "given"

\* the word is decoded
DecodeWord ==
    /\ stage = "given"
    /\ outcome' = Opcode_try_from(input)
    /\ stage' = "decoded"
    /\ UNCHANGED << emu_vars, host_vars, input, output >>

\* the arm decoded is encoded as its template's bit pattern
EncodeArm ==
    /\ stage = "decoded"
    /\ outcome.err = Ok
    /\ outcome.opcode.op # "Invalid"
    /\ output' = to_be_bytes(Canonical(outcome.opcode))
    /\ stage' = "encoded"
    /\ UNCHANGED << emu_vars, host_vars, input, outcome >>

DecNext == DecodeWord \/ EncodeArm

DecSpec == DecInit /\ [][DecNext]_vars

\* the decode table: the words that match no arm
InvalidWord(w) ==
    LET hi == w \div 4096
        n  == w % 16
        kk == w % 256
    IN \/ hi = 5 /\ n # 0
       \/ hi = 8 /\ n \in {8, 9, 10, 11, 12, 13, 15}
       \/ hi = 9 /\ n # 0
       \/ hi = 14 /\ kk \notin {\h9E, \hA1}
       \/ hi = 15 /\ kk \notin {\h07, \h0A, \h15, \h18, \h1E, \h29, \h33,
                                \h55, \h65}

\* the decode table: the arm of a word that matches one
TableArm(w) ==
    LET hi == w \div 4096
        n  == w % 16
        kk == w % 256
    IN CASE w = \h00E0 -> "Cls"
         [] w = \h00EE -> "Ret"
         [] hi = 0 /\ w \notin {\h00E0, \h00EE} -> "Sys"
         [] hi = 1 -> "Jp"
         [] hi = 2 -> "Call"
         [] hi = 3 -> "SeByte"
         [] hi = 4 -> "SneByte"
         [] hi = 5 -> "SeRegister"
         [] hi = 6 -> "LdByte"
         [] hi = 7 -> "AddByte"
         [] hi = 8 -> << "LdRegister", "Or", "And", "Xor", "AddRegister",
                         "Sub", "Shr", "Subn", "", "", "", "", "", "",
                         "Shl" >>[n + 1]
         [] hi = 9 -> "SneRegister"
         [] hi = 10 -> "LdI"
         [] hi = 11 -> "JpV0"
         [] hi = 12 -> "Rnd"
         [] hi = 13 -> "Drw"
         [] hi = 14 -> IF kk = \h9E THEN "Skp" ELSE "Sknp"
         [] hi = 15 -> CASE kk = \h07 -> "LdVxDT" [] kk = \h0A -> "LdVxK"
                         [] kk = \h15 -> "LdDTVx" [] kk = \h18 -> "LdSTVx"
                         [] kk = \h1E -> "AddIVx" [] kk = \h29 -> "LdFVx"
                         [] kk = \h33 -> "LdBVx" [] kk = \h55 -> "LdIVx"
                         [] kk = \h65 -> "LdVxI"

\* the arms by the fields they carry
AddressArms == {"Sys", "Jp", "Call", "LdI", "JpV0"}
ByteArms == {"SeByte", "SneByte", "LdByte", "AddByte", "Rnd"}
RegisterPairArms ==
    {"SeRegister", "LdRegister", "Or", "And", "Xor", "AddRegister", "Sub",
     "Subn", "SneRegister"}
RegisterArms ==
    {"Shr", "Shl", "Skp", "Sknp", "LdVxDT", "LdVxK", "LdDTVx", "LdSTVx",
     "AddIVx", "LdFVx", "LdBVx", "LdIVx", "LdVxI"}

\* C21: for every 16-bit word the decoder returns Ok, and the arm is the
\* one of the decode table: Invalid(w) exactly for the words the table
\* leaves out, otherwise the listed arm with address = w & 0xFFF,
\* kk = w & 0xFF and x, y, n the three low nibbles.
C21_DecodeTable ==
    stage # "given"
      => LET w   == input
             arm == outcome.opcode
         IN /\ outcome.err = Ok
            /\ arm.op = "Invalid" <=> InvalidWord(w)
            /\ arm.op = "Invalid" => arm.value = w
            /\ arm.op # "Invalid" => arm.op = TableArm(w)
            /\ arm.op \in AddressArms => arm.address = w % 4096
            /\ arm.op \in ByteArms
                 => arm.x = (w \div 256) % 16 /\ arm.byte = w % 256
            /\ arm.op \in RegisterPairArms
                 => arm.x = (w \div 256) % 16 /\ arm.y = (w \div 16) % 16
            /\ arm.op \in RegisterArms => arm.x = (w \div 256) % 16
            /\ arm.op = "Drw"
                 => /\ arm.x = (w \div 256) % 16
                    /\ arm.y = (w \div 16) % 16
                    /\ arm.n = w % 16

\* the word #E1A2, in no row of the table, was decoded to Invalid(#E1A2)
C21_Witness ==
    /\ stage = "decoded"
    /\ input = \hE1A2
    /\ outcome = [err |-> Ok, opcode |-> OpInvalid(\hE1A2)]

\* C22 as stated: for every word that decodes to a non-Invalid arm,
\* encoding the arm and its fields as the canonical bit pattern of the arm
\* gives the word back.
C22_RoundTrip == stage = "encoded" => from_be_bytes(output) = input

\* C22: for every word that decodes to a non-Invalid arm other than Shr
\* and Shl, the canonical bit pattern of the arm is the word; for Shr{x}
\* and Shl{x}, which carry no y, it is the word with its y nibble replaced
\* by 1 (Shr) or 0 (Shl).
C22_RoundTripButShifts ==
    stage = "encoded"
      => from_be_bytes(output) =
            CASE outcome.opcode.op = "Shr"
                   -> WordSXYN(8, (input \div 256) % 16, 1, 6)
              [] outcome.opcode.op = "Shl"
                   -> WordSXYN(8, (input \div 256) % 16, 0, 14)
              [] OTHER -> input

\* the word #8F26 was decoded to Shr{F} and encoded as #8F16
C22_Witness ==
    /\ stage = "encoded"
    /\ input = \h8F26
    /\ outcome.opcode.op = "Shr"
    /\ output = << \h8F, \h16 >>

(***************************************************************************)
(* The memory range operations called on the Memory of a new emulator, as  *)
(* tests.rs memory_load_and_access calls them.  Memory::read_range copies  *)
(* a slice into memory (the range write); Memory::write_range copies       *)
(* memory out into a buffer of the caller (the range read).                *)
(***************************************************************************)
MaxData == 3
MaxStores == 2

\* the data of memory_load_and_access
TestData == << \hFF, \hEE, \hDD, \hCC >>

\* slices of the test data, of every length up to MaxData
Slices ==
    {[k \in 1..n |-> TestData[((s + k) % 4) + 1]] : s \in 0..1, n \in 0..MaxData}

\* the entry point and the byte after it, and the last addresses of memory
RangeAddresses == {ENTRY_POINT, ENTRY_POINT + 1, \hFFC, \hFFD}

MemInit ==
    /\ Constructed
    /\ input = [address |-> ENTRY_POINT, data |-> << >>, round |-> 0]
    /\ output = << >>
    /\ outcome = NotRun
    /\ stage = "idle"

\* memory.read_range(address, &data), with a zeroed buffer of the same
\* length made for the read that follows
StoreRange ==
    /\ stage \in {"idle", "loaded"}
    /\ input.round < MaxStores
    /\ \E address \in RangeAddresses, data \in Slices :
          LET r == read_range(memory, address, data)
          IN /\ memory' = r.ram
             /\ outcome' = r.err
             /\ input' = [address |-> address, data |-> data,
                          round |-> input.round + 1]
             /\ output' = Zeros(Len(data))
    /\ stage' = "stored"
    /\ UNCHANGED << pc, i, registers, sound_timer, delay_timer, stack, display,
                    keyboard, state, host_vars >>

\* memory.write_range(address, &mut buffer)
LoadRange ==
    /\ stage = "stored"
    /\ LET r == write_range(memory, input.address, Len(output))
       IN /\ outcome' = r.err
          /\ output' = IF r.err = Ok THEN r.data ELSE output
    /\ stage' = "loaded"
    /\ UNCHANGED << emu_vars, host_vars, input >>

MemNext == StoreRange \/ LoadRange

MemSpec == MemInit /\ [][MemNext]_vars

MaxValue == 255

\* the values of a register
Values == {(7 * k) % 256 : k \in 0..MaxValue}

\* where the digits go: above the program, and the last three bytes the
\* range check lets through
BcdAddresses == {\h300, \hFFC}

BcdRom(x, v, addr) ==
    WordsToBytes(<< WordSXKK(6, x, v), WordSNNN(10, addr),
                    WordSXYN(15, x, 3, 3), WordSNNN(1, \h206) >>)

\* emulator.load_rom(&bytes[..]): a slice reads whole
LoadBytes(bytes) ==
    /\ LET r == Emulator_load_rom(Emu, Reader(bytes, << >>))
       IN /\ Becomes(r.e)
          /\ result' = r.err
    /\ rom' = bytes
    /\ op' = "load_rom"
    /\ from' = state
    /\ opcode' = NoOpcode
    /\ UNCHANGED screen

BcdInit ==
    /\ Constructed
    /\ input \in {BcdRom(x, v, addr) :
                    x \in SampleRegisters, v \in Values, addr \in BcdAddresses}
    /\ output = << >>
    /\ outcome = NotRun
    /\ stage = "given"

\* the host loads the ROM given
LoadGiven ==
    /\ stage = "given"
    /\ LoadBytes(input)
    /\ stage' = "loaded"
    /\ UNCHANGED << input, output, outcome >>

BcdNext == LoadGiven \/ Tick

BcdSpec == BcdInit /\ [][BcdNext]_vars

\* C23: for every value v of V[x], LdBVx{x} writes v / 100, (v / 10) mod 10
\* and v mod 10 to memory[I], memory[I+1] and memory[I+2], and changes no
\* other memory byte, no register and not I.
C23_Bcd ==
    [][(TickStep /\ state.tag = "Running" /\ opcode'.op = "LdBVx")
          => LET v == registers[opcode'.x]
             IN /\ MemAt(memory', i) = v \div 100
                /\ MemAt(memory', i + 1) = (v \div 10) % 10
                /\ MemAt(memory', i + 2) = v % 10
                /\ SubSeq(memory', 1, i) = SubSeq(memory, 1, i)
                /\ SubSeq(memory', i + 4, MEMORY_SIZE)
                      = SubSeq(memory, i + 4, MEMORY_SIZE)
                /\ registers' = registers
                /\ i' = i]_vars

\* LD B, VF with VF = 255 and I = 0xFFC wrote 2, 5, 5
C23_Witness ==
    /\ op = "tick"
    /\ opcode = OpX("LdBVx", \hFF33)
    /\ registers[15] = 255
    /\ i = \hFFC
    /\ result = Ok
    /\ SubSeq(memory, \hFFC + 1, \hFFC + 3) = << 2, 5, 5 >>

(***************************************************************************)
(* The assembler (r8-assembly).  A source text is the sequence of its      *)
(* characters, each a one-character string; a lexeme is a sequence of      *)
(* characters too.  An assembler error carries the line it was found on.   *)
(***************************************************************************)
DecimalDigits == << "0", "1", "2", "3", "4", "5", "6", "7", "8", "9" >>
UpperHexDigits == DecimalDigits \o << "A", "B", "C", "D", "E", "F" >>
LowerHexDigits == DecimalDigits \o << "a", "b", "c", "d", "e", "f" >>
Letters ==
    {"a", "b", "c", "d", "e", "f", "g", "h", "i", "j", "k", "l", "m", "n", "o",
     "p", "q", "r", "s", "t", "u", "v", "w", "x", "y", "z",
     "A", "B", "C", "D", "E", "F", "G", "H", "I", "J", "K", "L", "M", "N", "O",
     "P", "Q", "R", "S", "T", "U", "V", "W", "X", "Y", "Z"}

\* char::to_digit(radix): 0..radix-1, or radix when c is no digit
to_digit(c, radix) ==
    LET found == {d \in 0..(radix - 1) :
                     UpperHexDigits[d + 1] = c \/ LowerHexDigits[d + 1] = c}
    IN IF found = {} THEN radix ELSE CHOOSE d \in found : TRUE

\* the value printed in decimal
RECURSIVE UpperHex_decimal(_)
UpperHex_decimal(value) ==
    IF value < 10 THEN << DecimalDigits[value + 1] >>
    ELSE UpperHex_decimal(value \div 10) \o << DecimalDigits[(value % 10) + 1] >>

\* {:X} of an unsigned value
RECURSIVE UpperHex(_)
UpperHex(value) ==
    IF value < 16 THEN << UpperHexDigits[value + 1] >>
    ELSE UpperHex(value \div 16) \o << UpperHexDigits[(value % 16) + 1] >>

AsmErr(kind, value, line) == [kind |-> kind, value |-> value, line |-> line]

\* the digits of str read in the radix while the value fits `max`;
\* -1 for a character that is no digit or a value above max
RECURSIVE ParseDigits(_, _, _, _, _)
ParseDigits(str, k, radix, max, acc) ==
    IF k > Len(str) THEN acc
    ELSE LET d == to_digit(str[k], radix)
         IN IF d = radix \/ acc * radix + d > max THEN -1
            ELSE ParseDigits(str, k + 1, radix, max, acc * radix + d)

\* u8::from_str_radix / u16::from_str_radix / str::parse::<u16>
from_str_radix(str, radix, max) ==
    IF str = << >> THEN -1 ELSE ParseDigits(str, 1, radix, max, 0)

\* Tokenizer::new: the source, the position of the first character not yet
\* consumed (self.src is the text from there on) and the line
Tokenizer_new(src) == [src |-> src, pos |-> 1, line |-> 1]

Separators == {" ", "\t", "\n", "\r", ","}

\* Tokenizer::next_space, as a position in the whole text
RECURSIVE ScanTo(_, _, _)
ScanTo(src, k, stops) ==
    IF k > Len(src) \/ src[k] \in stops THEN k ELSE ScanTo(src, k + 1, stops)

next_space(self) == ScanTo(self.src, self.pos, Separators)

\* the tokens
Token(kind, name, num) == [kind |-> kind, name |-> name, num |-> num]
Label(name) == Token("Label", name, 0)
Identifier(name) == Token("Identifier", name, 0)
Register(num) == Token("Register", << >>, num)
Number(num) == Token("Number", << >>, num)
Comma == Token("Comma", << >>, 0)
LineBreak == Token("LineBreak", << >>, 0)
Eof == Token("Eof", << >>, 0)

Lexed(self, err, token) == [self |-> self, err |-> err, token |-> token]

\* Tokenizer::next_token : [self, err, token]
RECURSIVE next_token(_)
next_token(self) ==
    LET src   == self.src
        pos   == self.pos
        c     == src[pos]
        hex   == pos < Len(src) /\ to_digit(src[pos + 1], 16) < 16
        after == [self EXCEPT !.pos = pos + 1]
    IN IF pos > Len(src) THEN Lexed(self, Ok, Eof)
       ELSE CASE c \in {" ", "\t", "\r"} -> next_token(after)
              [] c = "\n" ->
                   Lexed([after EXCEPT !.line = self.line + 1], Ok, LineBreak)
              [] c = "V" /\ hex ->
                   LET space   == next_space(after)
                       reg_str == SubSeq(src, pos + 1, space - 1)
                       reg     == from_str_radix(reg_str, 16, 255)
                       rest    == [self EXCEPT !.pos = space]
                   IN IF reg = -1
                      THEN Lexed(rest, AsmErr("InvalidNumber", reg_str, self.line),
                                 Eof)
                      ELSE IF reg > 15
                      THEN Lexed(rest, AsmErr("InvalidRegister", reg, self.line),
                                 Eof)
                      ELSE Lexed(rest, Ok, Register(reg))
              [] c = "#" /\ hex ->
                   LET space   == next_space(after)
                       num_str == SubSeq(src, pos + 1, space - 1)
                       num     == from_str_radix(num_str, 16, 65535)
                       rest    == [self EXCEPT !.pos = space]
                   IN IF num = -1
                      THEN Lexed(rest, AsmErr("InvalidNumber", num_str, self.line),
                                 Eof)
                      ELSE Lexed(rest, Ok, Number(num))
              [] to_digit(c, 10) < 10 ->
                   LET space   == next_space(self)
                       num_str == SubSeq(src, pos, space - 1)
                       num     == from_str_radix(num_str, 10, 65535)
                       rest    == [self EXCEPT !.pos = space]
                   IN IF num = -1
                      THEN Lexed(rest, AsmErr("InvalidNumber", num_str, self.line),
                                 Eof)
                      ELSE Lexed(rest, Ok, Number(num))
              [] c = "," -> Lexed(after, Ok, Comma)
              [] c \in Letters \cup {"[", "]"} ->
                   LET space == next_space(self)
                       id    == SubSeq(src, pos, space - 1)
                       rest  == [self EXCEPT !.pos = space]
                   IN IF id[Len(id)] = ":"
                      THEN Lexed(rest, Ok, Label(SubSeq(id, 1, Len(id) - 1)))
                      ELSE Lexed(rest, Ok, Identifier(id))
              [] c = ";" ->
                   next_token([self EXCEPT !.pos = ScanTo(src, pos, {"\n"})])
              [] OTHER ->
                   LET space == next_space(self)
                   IN Lexed([self EXCEPT !.pos = space],
                            AsmErr("InvalidToken", SubSeq(src, pos, space - 1),
                                   self.line),
                            Eof)

\* Line { tokens, line }
Line(tokens, line) == [tokens |-> tokens, line |-> line]

\* Tokenizer::get_line : [self, err, line]
RECURSIVE get_line_loop(_, _, _)
\* the match on the token t that next_token gave
get_line_match(t, tokens, line) ==
    IF t.err # Ok
    THEN [self |-> t.self, err |-> t.err, line |-> Line(<< >>, line)]
    ELSE IF t.token = LineBreak
    THEN [self |-> t.self, err |-> Ok, line |-> Line(tokens, line)]
    ELSE IF t.token = Eof
    THEN [self |-> t.self, err |-> Ok,
          line |-> IF tokens = << >> THEN Line(<< Eof >>, t.self.line)
                   ELSE Line(tokens, line)]
    ELSE get_line_loop(t.self, Append(tokens, t.token), line)

get_line_loop(self, tokens, line) ==
    get_line_match(next_token(self), tokens, line)

\* get_line with the line number read when the line is complete
get_line_numbered_after(self) ==
    [self |-> get_line_loop(self, << >>, self.line).self,
     err  |-> get_line_loop(self, << >>, self.line).err,
     line |-> Line(get_line_loop(self, << >>, self.line).line.tokens,
                   get_line_loop(self, << >>, self.line).self.line)]

get_line(self) == get_line_loop(self, << >>, self.line)

\* Iterator::next for Tokenizer: None at the end of the text
Iterator_item(l) ==
    [self |-> l.self, err |-> l.err, line |-> l.line,
     none |-> l.err = Ok /\ l.line.tokens = << Eof >>]

Tokenizer_next(self) == Iterator_item(get_line(self))

\* the characters of a mnemonic or of an operand name
Chars(s) ==
    CASE s = "CLS" -> << "C", "L", "S" >>
      [] s = "RET" -> << "R", "E", "T" >>
      [] s = "SYS" -> << "S", "Y", "S" >>
      [] s = "JP" -> << "J", "P" >>
      [] s = "CALL" -> << "C", "A", "L", "L" >>
      [] s = "SE" -> << "S", "E" >>
      [] s = "SNE" -> << "S", "N", "E" >>
      [] s = "LD" -> << "L", "D" >>
      [] s = "ADD" -> << "A", "D", "D" >>
      [] s = "OR" -> << "O", "R" >>
      [] s = "AND" -> << "A", "N", "D" >>
      [] s = "XOR" -> << "X", "O", "R" >>
      [] s = "SUB" -> << "S", "U", "B" >>
      [] s = "SHR" -> << "S", "H", "R" >>
      [] s = "SUBN" -> << "S", "U", "B", "N" >>
      [] s = "SHL" -> << "S", "H", "L" >>
      [] s = "RND" -> << "R", "N", "D" >>
      [] s = "DRW" -> << "D", "R", "W" >>
      [] s = "SKP" -> << "S", "K", "P" >>
      [] s = "SKNP" -> << "S", "K", "N", "P" >>
      [] s = "DB" -> << "D", "B" >>
      [] s = "DW" -> << "D", "W" >>
      [] s = "I" -> << "I" >>
      [] s = "DT" -> << "D", "T" >>
      [] s = "K" -> << "K" >>
      [] s = "ST" -> << "S", "T" >>
      [] s = "F" -> << "F" >>
      [] s = "B" -> << "B" >>
      [] s = "[I]" -> << "[", "I", "]" >>

\* MemorySlices
SliceOpcode(data) == [tag |-> "Opcode", data |-> data]
SlicePending(first, label, line) ==
    [tag |-> "Pending", first |-> first, label |-> label, line |-> line]
SliceByte(data) == [tag |-> "Byte", data |-> data]
SliceWord(data) == [tag |-> "Word", data |-> data]
SliceEmpty == [tag |-> "Empty"]

\* what a template of cast_line gives: the Result and the bytes the cursor
\* advances by (it advances before the operands are checked)
Sliced(err, slice, size) == [err |-> err, slice |-> slice, size |-> size]

\* nibble! that lets every value through
nibble_unchecked(num, line) == Ok

\* addr!, byte!, nibble!: the error of an operand out of range
addr_checked(num, line) ==
    IF num > \h0FFF THEN AsmErr("InvalidAddress", num, line) ELSE Ok
byte_checked(num, line) ==
    IF num > \hFF THEN AsmErr("InvalidByte", num, line) ELSE Ok
nibble_checked(num, line) ==
    IF num > \hF THEN AsmErr("InvalidNibble", num, line) ELSE Ok

\* op_sxyn!
op_sxyn(s, x, y, n, line) ==
    LET bad == {k \in 1..4 : nibble_checked(<< s, x, y, n >>[k], line) # Ok}
    IN IF bad # {}
       THEN Sliced(nibble_checked(<< s, x, y, n >>[CHOOSE k \in bad :
                                      \A j \in bad : k <= j], line),
                   SliceEmpty, 2)
       ELSE Sliced(Ok, SliceOpcode(s * 4096 + x * 256 + y * 16 + n), 2)

\* op_snnn!
op_snnn(s, nnn, line) ==
    IF nibble_checked(s, line) # Ok
    THEN Sliced(nibble_checked(s, line), SliceEmpty, 2)
    ELSE IF addr_checked(nnn, line) # Ok
    THEN Sliced(addr_checked(nnn, line), SliceEmpty, 2)
    ELSE Sliced(Ok, SliceOpcode(BitOr(s * 4096, nnn)), 2)

\* op_sxkk!
op_sxkk(s, x, kk, line) ==
    IF byte_checked(kk, line) # Ok
    THEN Sliced(byte_checked(kk, line), SliceEmpty, 2)
    ELSE Sliced(Ok, SliceOpcode(BitOr(BitOr(s * 4096, x * 256), kk)), 2)

\* op_slabel!
op_slabel(s, label, line, labels) ==
    IF label \in DOMAIN labels
    THEN Sliced(Ok, SliceOpcode(BitOr(s * 4096, labels[label])), 2)
    ELSE Sliced(Ok, SlicePending(s, label, line), 2)

\* the instruction and data templates of cast_line
Template(line, labels) ==
    LET tk    == line.tokens
        ln    == line.line
        kinds == [k \in 1..Len(tk) |-> tk[k].kind]
        is(k, s) == tk[k].name = Chars(s)
        x     == tk[2].num
        INVALID == Sliced(AsmErr("InvalidLine", tk, ln), SliceEmpty, 0)
    IN CASE kinds = << "Identifier" >> ->
              CASE is(1, "CLS") -> op_sxyn(0, 0, 14, 0, ln)
                [] is(1, "RET") -> op_sxyn(0, 0, 14, 14, ln)
                [] OTHER -> INVALID
         [] kinds = << "Identifier", "Number" >> ->
              CASE is(1, "SYS") -> op_snnn(0, tk[2].num, ln)
                [] is(1, "JP") -> op_snnn(1, tk[2].num, ln)
                [] is(1, "CALL") -> op_snnn(2, tk[2].num, ln)
                [] is(1, "DB") ->
                     Sliced(byte_checked(tk[2].num, ln),
                            SliceByte(tk[2].num), 1)
                [] is(1, "DW") -> Sliced(Ok, SliceWord(tk[2].num), 2)
                [] OTHER -> INVALID
         [] kinds = << "Identifier", "Identifier" >> ->
              CASE is(1, "SYS") -> op_slabel(0, tk[2].name, ln, labels)
                [] is(1, "JP") -> op_slabel(1, tk[2].name, ln, labels)
                [] is(1, "CALL") -> op_slabel(2, tk[2].name, ln, labels)
                [] OTHER -> INVALID
         [] kinds = << "Identifier", "Register", "Comma", "Number" >> ->
              CASE is(1, "SE") -> op_sxkk(3, x, tk[4].num, ln)
                [] is(1, "SNE") -> op_sxkk(4, x, tk[4].num, ln)
                [] is(1, "LD") -> op_sxkk(6, x, tk[4].num, ln)
                [] is(1, "ADD") -> op_sxkk(7, x, tk[4].num, ln)
                [] is(1, "JP") /\ x = 0 -> op_snnn(11, tk[4].num, ln)
                [] is(1, "RND") -> op_sxkk(12, x, tk[4].num, ln)
                [] OTHER -> INVALID
         [] kinds = << "Identifier", "Register", "Comma", "Register" >> ->
              CASE is(1, "SE") -> op_sxyn(5, x, tk[4].num, 0, ln)
                [] is(1, "LD") -> op_sxyn(8, x, tk[4].num, 0, ln)
                [] is(1, "OR") -> op_sxyn(8, x, tk[4].num, 1, ln)
                [] is(1, "AND") -> op_sxyn(8, x, tk[4].num, 2, ln)
                [] is(1, "XOR") -> op_sxyn(8, x, tk[4].num, 3, ln)
                [] is(1, "ADD") -> op_sxyn(8, x, tk[4].num, 4, ln)
                [] is(1, "SUB") -> op_sxyn(8, x, tk[4].num, 5, ln)
                [] is(1, "SUBN") -> op_sxyn(8, x, tk[4].num, 7, ln)
                [] is(1, "SNE") -> op_sxyn(9, x, tk[4].num, 0, ln)
                [] OTHER -> INVALID
         [] kinds = << "Identifier", "Register" >> ->
              CASE is(1, "SHR") -> op_sxyn(8, x, 1, 6, ln)
                [] is(1, "SHL") -> op_sxyn(8, x, 0, 14, ln)
                [] is(1, "SKP") -> op_sxyn(14, x, 9, 14, ln)
                [] is(1, "SKNP") -> op_sxyn(14, x, 10, 1, ln)
                [] OTHER -> INVALID
         [] kinds = << "Identifier", "Identifier", "Comma", "Number" >> ->
              IF is(1, "LD") /\ is(2, "I") THEN op_snnn(10, tk[4].num, ln)
              ELSE INVALID
         [] kinds = << "Identifier", "Identifier", "Comma", "Identifier" >> ->
              IF is(1, "LD") /\ is(2, "I")
              THEN op_slabel(10, tk[4].name, ln, labels)
              ELSE INVALID
         [] kinds = << "Identifier", "Register", "Comma", "Identifier" >> ->
              CASE is(1, "JP") /\ x = 0 -> op_slabel(11, tk[4].name, ln, labels)
                [] is(1, "LD") /\ is(4, "DT") -> op_sxyn(15, x, 0, 7, ln)
                [] is(1, "LD") /\ is(4, "K") -> op_sxyn(15, x, 0, 10, ln)
                [] is(1, "LD") /\ is(4, "[I]") -> op_sxyn(15, x, 6, 5, ln)
                [] OTHER -> INVALID
         [] kinds = << "Identifier", "Identifier", "Comma", "Register" >> ->
              CASE is(1, "LD") /\ is(2, "DT") -> op_sxyn(15, tk[4].num, 1, 5, ln)
                [] is(1, "LD") /\ is(2, "ST") -> op_sxyn(15, tk[4].num, 1, 8, ln)
                [] is(1, "ADD") /\ is(2, "I") -> op_sxyn(15, tk[4].num, 1, 14, ln)
                [] is(1, "LD") /\ is(2, "F") -> op_sxyn(15, tk[4].num, 2, 9, ln)
                [] is(1, "LD") /\ is(2, "B") -> op_sxyn(15, tk[4].num, 3, 3, ln)
                [] is(1, "LD") /\ is(2, "[I]") -> op_sxyn(15, tk[4].num, 5, 5, ln)
                [] OTHER -> INVALID
         [] kinds = << "Identifier", "Register", "Comma", "Register", "Comma",
                       "Number" >> ->
              IF is(1, "DRW") THEN op_sxyn(13, x, tk[4].num, tk[6].num, ln)
              ELSE INVALID
         [] OTHER -> INVALID

\* the Result of a template and the cursor moved on by its size
Advanced(r, address, labels) ==
    [err |-> r.err, slice |-> r.slice, address |-> address + r.size,
     labels |-> labels]

\* cast_line that binds a label again when it is defined again
cast_line_rebinding(line, address, labels) ==
    LET tk == line.tokens
    IN IF tk = << >>
       THEN [err |-> Ok, slice |-> SliceEmpty, address |-> address,
             labels |-> labels]
       ELSE IF Len(tk) = 1 /\ tk[1].kind = "Label"
       THEN [err |-> Ok, slice |-> SliceEmpty, address |-> address,
             labels |-> [l \in DOMAIN labels \cup {tk[1].name} |->
                           IF l = tk[1].name THEN address ELSE labels[l]]]
       ELSE Advanced(Template(line, labels), address, labels)

\* cast_line : [err, slice, address, labels]
cast_line(line, address, labels) ==
    LET tk == line.tokens
    IN IF tk = << >>
       THEN [err |-> Ok, slice |-> SliceEmpty, address |-> address,
             labels |-> labels]
       ELSE IF Len(tk) = 1 /\ tk[1].kind = "Label"
       THEN IF tk[1].name \in DOMAIN labels
            THEN [err |-> AsmErr("DuplicateLabel", tk[1].name, line.line),
                  slice |-> SliceEmpty, address |-> address, labels |-> labels]
            ELSE [err |-> Ok, slice |-> SliceEmpty, address |-> address,
                  labels |-> [l \in DOMAIN labels \cup {tk[1].name} |->
                                IF l = tk[1].name THEN address ELSE labels[l]]]
       ELSE Advanced(Template(line, labels), address, labels)

\* MemorySlices::write : [err, out], the bytes written to the sink
MemorySlices_write(self, labels) ==
    CASE self.tag \in {"Opcode", "Word"} ->
           [err |-> Ok, out |-> to_be_bytes(self.data)]
      [] self.tag = "Pending" ->
           IF self.label \in DOMAIN labels
           THEN [err |-> Ok,
                 out |-> to_be_bytes(BitOr(self.first * 4096,
                                           BitAnd(labels[self.label], \h0FFF)))]
           ELSE [err |-> AsmErr("UndefinedLabel", self.label, self.line),
                 out |-> << >>]
      [] self.tag = "Byte" -> [err |-> Ok, out |-> << self.data >>]
      [] self.tag = "Empty" -> [err |-> Ok, out |-> << >>]

\* the first pass: one more line through the tokenizer and cast_line
\* the Result c of cast_line for the line l is collected
Pass1Collect(p, l, c) ==
    [p EXCEPT !.tokenizer = l.self,
              !.address = c.address,
              !.labels = c.labels,
              !.slices = Append(@, [err |-> c.err, slice |-> c.slice])]

\* the closure of the map: the item l of the tokenizer goes to cast_line
Pass1Line(p, l) ==
    IF l.none THEN [p EXCEPT !.done = TRUE, !.tokenizer = l.self]
    ELSE IF l.err # Ok
    THEN [p EXCEPT !.tokenizer = l.self,
                   !.slices = Append(@, [err |-> l.err, slice |-> SliceEmpty])]
    ELSE Pass1Collect(p, l, cast_line(l.line, p.address, p.labels))

Pass1Step(p) ==
    IF p.done THEN p ELSE Pass1Line(p, Tokenizer_next(p.tokenizer))

\* n lines through the first pass, the first half and then the rest
RECURSIVE Pass1(_, _)
Pass1(p, n) ==
    IF n = 0 \/ p.done THEN p
    ELSE IF n = 1 THEN Pass1Step(p)
    ELSE Pass1(Pass1(p, n \div 2), n - (n \div 2))

\* the sink w after the write r
Written_to(w, r) == [err |-> r.err, out |-> w.out \o r.out]

\* the second pass over slices[lo..hi] in order, until the first error
RECURSIVE Pass2(_, _, _, _, _)
Pass2(w, slices, labels, lo, hi) ==
    IF w.err # Ok \/ lo > hi THEN w
    ELSE IF lo = hi
    THEN IF slices[lo].err # Ok THEN [w EXCEPT !.err = slices[lo].err]
         ELSE Written_to(w, MemorySlices_write(slices[lo].slice, labels))
    ELSE Pass2(Pass2(w, slices, labels, lo, (lo + hi) \div 2),
               slices, labels, ((lo + hi) \div 2) + 1, hi)

\* assemble that reports the first error of the first pass before it
\* writes anything
Collected(src) ==
    Pass1([tokenizer |-> Tokenizer_new(src), done |-> FALSE,
           address |-> \h200, labels |-> << >>, slices |-> << >>],
          Len(src) + 1)

\* the loop over the collected results
WriteAll(p) ==
    Pass2([err |-> Ok, out |-> << >>], p.slices, p.labels, 1, Len(p.slices))

FirstFailed(p, bad) ==
    IF bad # {}
    THEN [err |-> p.slices[CHOOSE k \in bad : \A j \in bad : k <= j].err,
          out |-> << >>]
    ELSE WriteAll(p)

CheckedFirst(p) ==
    FirstFailed(p, {k \in 1..Len(p.slices) : p.slices[k].err # Ok})

assemble_collecting(src) == CheckedFirst(Collected(src))

\* assemble : [err, out]; a text has at most one line for each character
\* and one more
assemble(src) == WriteAll(Collected(src))

\* impl Display for Opcode
Display(arm) ==
    LET o   == arm.op
        V(r) == << " ", "V" >> \o UpperHex(r)
        H(n) == << " ", "#" >> \o UpperHex(n)
        W(s) == << " " >> \o Chars(s)
        c   == << "," >>
    IN CASE o = "Cls" -> Chars("CLS")
         [] o = "Ret" -> Chars("RET")
         [] o = "Sys" -> Chars("SYS") \o H(arm.address)
         [] o = "Jp" -> Chars("JP") \o H(arm.address)
         [] o = "Call" -> Chars("CALL") \o H(arm.address)
         [] o = "SeByte" -> Chars("SE") \o V(arm.x) \o c \o H(arm.byte)
         [] o = "SneByte" -> Chars("SNE") \o V(arm.x) \o c \o H(arm.byte)
         [] o = "SeRegister" -> Chars("SE") \o V(arm.x) \o c \o V(arm.y)
         [] o = "LdByte" -> Chars("LD") \o V(arm.x) \o c \o H(arm.byte)
         [] o = "AddByte" -> Chars("ADD") \o V(arm.x) \o c \o H(arm.byte)
         [] o = "LdRegister" -> Chars("LD") \o V(arm.x) \o c \o V(arm.y)
         [] o = "Or" -> Chars("OR") \o V(arm.x) \o c \o V(arm.y)
         [] o = "And" -> Chars("AND") \o V(arm.x) \o c \o V(arm.y)
         [] o = "Xor" -> Chars("XOR") \o V(arm.x) \o c \o V(arm.y)
         [] o = "AddRegister" -> Chars("ADD") \o V(arm.x) \o c \o V(arm.y)
         [] o = "Sub" -> Chars("SUB") \o V(arm.x) \o c \o V(arm.y)
         [] o = "Shr" -> Chars("SHR") \o V(arm.x)
         [] o = "Subn" -> Chars("SUBN") \o V(arm.x) \o c \o V(arm.y)
         [] o = "Shl" -> Chars("SHL") \o V(arm.x)
         [] o = "SneRegister" -> Chars("SNE") \o V(arm.x) \o c \o V(arm.y)
         [] o = "LdI" -> Chars("LD") \o W("I") \o c \o H(arm.address)
         [] o = "JpV0" -> Chars("JP") \o V(0) \o c \o H(arm.address)
         [] o = "Rnd" -> Chars("RND") \o V(arm.x) \o c \o H(arm.byte)
         [] o = "Drw" ->
              Chars("DRW") \o V(arm.x) \o c \o V(arm.y) \o c \o H(arm.n)
         [] o = "Skp" -> Chars("SKP") \o V(arm.x)
         [] o = "Sknp" -> Chars("SKNP") \o V(arm.x)
         [] o = "LdVxDT" -> Chars("LD") \o V(arm.x) \o c \o W("DT")
         [] o = "LdVxK" -> Chars("LD") \o V(arm.x) \o c \o W("K")
         [] o = "LdDTVx" -> Chars("LD") \o W("DT") \o c \o V(arm.x)
         [] o = "LdSTVx" -> Chars("LD") \o W("ST") \o c \o V(arm.x)
         [] o = "AddIVx" -> Chars("ADD") \o W("I") \o c \o V(arm.x)
         [] o = "LdFVx" -> Chars("LD") \o W("F") \o c \o V(arm.x)
         [] o = "LdBVx" -> Chars("LD") \o W("B") \o c \o V(arm.x)
         [] o = "LdIVx" -> Chars("LD") \o W("[I]") \o c \o V(arm.x)
         [] o = "LdVxI" -> Chars("LD") \o V(arm.x) \o c \o W("[I]")
         [] o = "Invalid" -> << "#" >> \o UpperHex(arm.value)

(***************************************************************************)
(* The sources given to the assembler.  A source is its text and, line by  *)
(* line, what was written: a blank line, the definition of a label (Def),  *)
(* an instruction that names a label (Ref, with the instruction's first    *)
(* nibble), an instruction with its operands (Ins, `meant` the arm and the *)
(* operands written, which may be out of range), a DB or DW (Data, the     *)
(* number in meant.value), text with a lexeme that is no token (Bad), or   *)
(* tokens that match no template (Unmatched).                              *)
(***************************************************************************)
MaxLines == 3

Written(text, kind, name, first, meant) ==
    [text |-> text, kind |-> kind, name |-> name, first |-> first,
     meant |-> meant]

Blank == Written(<< >>, "Blank", << >>, 0, NoOpcode)
Def(name) == Written(name \o << ":" >>, "Def", name, 0, NoOpcode)
Ref(mnemonic, first, name) ==
    Written(Chars(mnemonic) \o << " " >> \o name, "Ref", name, first, NoOpcode)
Ins(arm) == Written(Display(arm), "Ins", << >>, 0, arm)
Data(mnemonic, num) ==
    Written(Chars(mnemonic) \o << " ", "#" >> \o UpperHex(num), "Data", << >>,
            0, Arm(mnemonic, 0, 0, 0, 0, 0, num))
Bad(text) == Written(text, "Bad", << >>, 0, NoOpcode)
Unmatched(text) == Written(text, "Unmatched", << >>, 0, NoOpcode)

\* the operands written: in range, at the end of the range, and beyond it
WrittenAddresses == {0, \h0E0, \h0EE, \h200, \hABC, \hFFF, \h1000, \hFFFF}
WrittenBytes == {0, \h0A, \hFF, \h100}
WrittenNibbles == {0, 5, \hF, \h10}
WrittenY == {0, 1, \hF}

InstructionLines ==
    {Ins(Arm(o, 0, 0, 0, 0, 0, 0)) : o \in {"Cls", "Ret"}}
    \cup {Ins(Arm(o, a, 0, 0, 0, 0, 0)) : o \in AddressArms, a \in WrittenAddresses}
    \cup {Ins(Arm(o, 0, x, 0, kk, 0, 0)) :
             o \in ByteArms, x \in SampleRegisters, kk \in WrittenBytes}
    \cup {Ins(Arm(o, 0, x, y, 0, 0, 0)) :
             o \in RegisterPairArms, x \in SampleRegisters, y \in WrittenY}
    \cup {Ins(Arm(o, 0, x, 0, 0, 0, 0)) : o \in RegisterArms, x \in SampleRegisters}
    \cup {Ins(Arm("Drw", 0, x, y, 0, n, 0)) :
             x \in SampleRegisters, y \in WrittenY, n \in WrittenNibbles}

\* the same in other notations: decimal numbers, lower-case hex digits
NotatedLines ==
    {Written(<< "L", "D", " ", "V", "a", ",", " ", "2", "5", "5" >>, "Ins", << >>, 0,
             Arm("LdByte", 0, 10, 0, 255, 0, 0)),
     Written(<< "J", "P", " ", " ", "#", "a", "b", "c", " ", ";", " ", "l", "o", "o", "p" >>, "Ins", << >>, 0,
             Arm("Jp", \hABC, 0, 0, 0, 0, 0)),
     Written(<< "D", "R", "W", " ", "V", "1", ",", "V", "2", ",", "1", "5" >>, "Ins", << >>, 0,
             Arm("Drw", 0, 1, 2, 0, 15, 0)),
     Written(<< "C", "A", "L", "L", " ", "4", "0", "9", "6" >>, "Ins", << >>, 0,
             Arm("Call", 4096, 0, 0, 0, 0, 0))}

DataLines ==
    {Data(m, num) : m \in {"DB", "DW"}, num \in {0, \hFF, \h100, \hFFFF}}

\* a lexeme that is no token, a number and a register that do not parse,
\* a register above VF; and token sequences that match no template
BadLines ==
    {Bad(<< "?" >>), Bad(<< "L", "D", " ", "V", "0", ",", " ", "#", "F", "F", "F", "F", "F" >>),
     Bad(<< "L", "D", " ", "V", "1", "G", ",", " ", "1" >>), Bad(<< "L", "D", " ", "V", "1", "0", ",", " ", "1" >>),
     Unmatched(<< "J", "P" >>), Unmatched(<< "C", "L", "S", " ", "V", "1" >>),
     Unmatched(<< "J", "P", " ", "V", "1", ",", " ", "#", "2", "0", "0" >>), Unmatched(<< "s", "t", "a", "r", "t", ":", " ", "C", "L", "S" >>),
     Unmatched(<< "1", "2" >>)}

start == << "s", "t", "a", "r", "t" >>
end == << "e", "n", "d" >>

\* the lines programs are made of
ProgramLines ==
    {Blank, Def(start), Def(end), Ref("JP", 1, start), Ref("CALL", 2, end),
     Ins(Arm("LdByte", 0, 0, 0, \h0A, 0, 0)), Data("DB", 1), Data("DB", \h100),
     Bad(<< "?" >>), Unmatched(<< "J", "P" >>)}

\* the text of lines, one per line
RECURSIVE Join(_)
Join(lines) ==
    IF Len(lines) = 1 THEN lines[1].text
    ELSE lines[1].text \o << "\n" >> \o Join(Tail(lines))

Source(lines) == [src |-> Join(lines), lines |-> lines]

\* a table of words that fills memory up to 0x1000, a label behind it, and
\* a SYS and a JP that name the label
LongTable == [k \in 1..((MEMORY_SIZE - ENTRY_POINT) \div 2) |-> Data("DW", 1)]
LongLines == LongTable \o << Def(end), Ref("SYS", 0, end), Ref("JP", 1, end) >>
LongSource ==
    [src |-> [k \in 1..(6 * Len(LongTable)) |->
                 (Data("DW", 1).text \o << "\n" >>)[((k - 1) % 6) + 1]]
             \o Join(SubSeq(LongLines, Len(LongTable) + 1, Len(LongLines))),
     lines |-> LongLines]

Sources ==
    {Source(<< l >>) : l \in InstructionLines \cup NotatedLines \cup DataLines
                              \cup BadLines}
    \cup {Source(p) : p \in UNION {[1..n -> ProgramLines] : n \in 1..MaxLines}}
    \cup {LongSource}

AsmInit ==
    /\ Constructed
    /\ input \in Sources
    /\ output = << >>
    /\ outcome = NotRun
    /\ stage = "given"

\* what assemble returned and what the sink holds
Returned(r) ==
    /\ output' = r.out
    /\ outcome' = r.err

\* assemble(&mut input, &mut output) with an empty Vec<u8> as the sink
Assemble ==
    /\ stage = "given"
    /\ Returned(assemble(input.src))
    /\ stage' = "assembled"
    /\ UNCHANGED << emu_vars, host_vars, input >>

\* the text given to assemble in place of the source
AssembleText(text) ==
    /\ input' = [input EXCEPT !.src = text]
    /\ Returned(assemble(text))

\* the word assembled is decoded, printed, and the text assembled again
Reassemble ==
    /\ stage = "assembled"
    /\ outcome = Ok
    /\ Len(output) = 2
    /\ AssembleText(Display(Opcode_try_from(from_be_bytes(output)).opcode))
    /\ stage' = "reassembled"
    /\ UNCHANGED << emu_vars, host_vars >>

\* the host loads what was assembled
LoadOutput ==
    /\ stage = "assembled"
    /\ outcome = Ok
    /\ LoadBytes(output)
    /\ stage' = "loaded"
    /\ UNCHANGED << input, output, outcome >>

\* the host ticks it, twice
TickOutput ==
    /\ stage \in {"loaded", "ticked"}
    /\ Alive
    /\ \E rnd \in RandBytes, checks \in BOOLEAN :
         LET r == Emulator_tick(Emu, rnd, checks)
         IN /\ Becomes(r.e)
            /\ result' = r.err
            /\ opcode' = r.opcode
    /\ op' = "tick"
    /\ from' = state
    /\ stage' = IF stage = "loaded" THEN "ticked" ELSE "ticked twice"
    /\ UNCHANGED << rom, screen, input, output, outcome >>

AsmNext == Assemble \/ Reassemble \/ LoadOutput \/ TickOutput

AsmSpec == AsmInit /\ [][AsmNext]_vars

\* the bytes a line emits: 2 for an instruction or a DW, 1 for a DB, 0 for
\* an empty line and for a label
Size(l) ==
    CASE l.kind \in {"Ins", "Ref"} -> 2
      [] l.kind = "Data" -> IF l.meant.op = "DW" THEN 2 ELSE 1
      [] OTHER -> 0

\* the bytes emitted by the lines before line k
Emitted(lines, k) ==
    2 * Cardinality({j \in 1..(k - 1) : Size(lines[j]) = 2})
      + Cardinality({j \in 1..(k - 1) : Size(lines[j]) = 1})

\* the lines that define the label
Definitions(lines, name) ==
    {j \in 1..Len(lines) : lines[j].kind = "Def" /\ lines[j].name = name}

\* the source `start:` / `LD V0, #0A` / `JP start`
ScenarioE ==
    Source(<< Def(start), Ins(Arm("LdByte", 0, 0, 0, \h0A, 0, 0)),
              Ref("JP", 1, start) >>)

\* C25: a label is bound to 0x200 plus the bytes emitted by the lines
\* before it, and every reference to it, before or after its definition,
\* is emitted as (first_nibble << 12) | (address & 0xFFF); the source
\* `start:` / `LD V0, #0A` / `JP start` gives 60 0A 12 00, and running it
\* returns PC to 0x200 after two ticks.
C25_LabelReference ==
    /\ (stage \in {"assembled", "loaded"} /\ outcome = Ok)
          => \A k \in 1..Len(input.lines) :
                input.lines[k].kind = "Ref"
                  => LET d    == CHOOSE j \in Definitions(input.lines,
                                                          input.lines[k].name) : TRUE
                         addr == \h200 + Emitted(input.lines, d)
                         at   == Emitted(input.lines, k)
                     IN SubSeq(output, at + 1, at + 2) =
                           to_be_bytes(input.lines[k].first * 4096
                                         + (addr % 4096))
    /\ (input = ScenarioE /\ stage # "given")
          => /\ output = << \h60, \h0A, \h12, \h00 >>
             /\ stage = "ticked twice" => pc = \h200

\* the error of an operand out of range: above 0xFFF for an address, above
\* 0xFF for a byte (DB too), above 0xF for the nibble of DRW
RangeError(l) ==
    CASE l.kind = "Ins" /\ l.meant.address > \hFFF -> "InvalidAddress"
      [] l.kind = "Ins" /\ l.meant.byte > \hFF -> "InvalidByte"
      [] l.kind = "Ins" /\ l.meant.n > \hF -> "InvalidNibble"
      [] l.kind = "Data" /\ l.meant.op = "DB" /\ l.meant.value > \hFF
           -> "InvalidByte"
      [] OTHER -> "Ok"

\* a line that is a statement with its operands in range
WellFormed(l) == l.kind \notin {"Bad", "Unmatched"} /\ RangeError(l) = "Ok"

\* two definitions share a name
Duplicated(lines, k) ==
    lines[k].kind = "Def" /\ \E j \in Definitions(lines, lines[k].name) : j < k

\* a reference names a label defined nowhere
Undefined(lines, k) ==
    lines[k].kind = "Ref" /\ Definitions(lines, lines[k].name) = {}

\* C26: for a source with no other error, assembly fails with
\* DuplicateLabel if and only if two label definitions share a name, and
\* with UndefinedLabel if and only if a reference names a label defined
\* nowhere in the source.
C26_LabelErrors ==
    LET lines == input.lines
        dup   == \E k \in 1..Len(lines) : Duplicated(lines, k)
        undef == \E k \in 1..Len(lines) : Undefined(lines, k)
    IN (stage = "assembled" /\ \A k \in 1..Len(lines) : WellFormed(lines[k]))
          => /\ ~undef => (outcome.kind = "DuplicateLabel" <=> dup)
             /\ ~dup => (outcome.kind = "UndefinedLabel" <=> undef)
             /\ (~dup /\ ~undef) => outcome = Ok

\* `start:` / `JP start` / `start:` failed with DuplicateLabel(start, 3)
C26_Witness ==
    /\ stage = "assembled"
    /\ input.lines = << Def(start), Ref("JP", 1, start), Def(start) >>
    /\ outcome = AsmErr("DuplicateLabel", start, 3)

\* C27: when assembly fails, the sink has received no byte.
C27_NoPartialOutput ==
    (stage = "assembled" /\ outcome # Ok) => output = << >>

\* the lines in error: text that is no statement, an operand out of range,
\* a label defined again, a reference to a label defined nowhere
Failing(lines) ==
    {k \in 1..Len(lines) :
        \/ ~WellFormed(lines[k])
        \/ Duplicated(lines, k)
        \/ Undefined(lines, k)}

\* the kinds of error that belong to a line in error
FailureKinds(lines, k) ==
    CASE lines[k].kind = "Bad"
           -> {"InvalidToken", "InvalidNumber", "InvalidRegister"}
      [] lines[k].kind = "Unmatched" -> {"InvalidLine"}
      [] RangeError(lines[k]) # "Ok" -> {RangeError(lines[k])}
      [] Duplicated(lines, k) -> {"DuplicateLabel"}
      [] Undefined(lines, k) -> {"UndefinedLabel"}

\* C28: when several lines are in error, in the tokenizer, in the first
\* pass or in the second, assemble returns the error of the failing line
\* with the smallest number; with no line in error it returns Ok.
C28_FirstError ==
    stage = "assembled"
      => LET failing == Failing(input.lines)
             k       == CHOOSE f \in failing : \A g \in failing : f <= g
         IN IF failing = {} THEN outcome = Ok
            ELSE /\ outcome.kind \in FailureKinds(input.lines, k)
                 /\ outcome.line = k

\* `CALL end` / `DB #100` / `?`: three lines in error, and the error is
\* UndefinedLabel(end, 1), found in the second pass
C28_Witness ==
    /\ stage = "assembled"
    /\ input.lines = << Ref("CALL", 2, end), Data("DB", \h100),
                        Bad(<< "?" >>) >>
    /\ outcome = AsmErr("UndefinedLabel", end, 1)

\* the number written on a line
Operand(l) ==
    IF l.kind = "Data" THEN l.meant.value
    ELSE l.meant.address + l.meant.byte + l.meant.n

\* C29: an operand out of range fails the line when it is converted, with
\* InvalidAddress (NNN > 0xFFF), InvalidByte (kk > 0xFF, DB too) or
\* InvalidNibble (n > 0xF), each with the number and the line; operands in
\* range never fail, DW takes every 16-bit value, and tokens that match no
\* template fail with InvalidLine.
C29_OperandRanges ==
    stage = "assembled"
      => LET lines   == input.lines
             failing == Failing(lines)
             k       == CHOOSE f \in failing : \A g \in failing : f <= g
         IN /\ failing = {} => outcome = Ok
            /\ (failing # {} /\ RangeError(lines[k]) # "Ok")
                 => outcome = AsmErr(RangeError(lines[k]), Operand(lines[k]), k)
            /\ (failing # {} /\ lines[k].kind = "Unmatched")
                 => outcome.kind = "InvalidLine" /\ outcome.line = k
            /\ (Len(lines) = 1 /\ lines[1].kind = "Data"
                  /\ lines[1].meant.op = "DW")
                 => outcome = Ok /\ output = to_be_bytes(Operand(lines[1]))

\* `DRW VF, V1, #10` failed with InvalidNibble(16, 1)
C29_Witness ==
    /\ stage = "assembled"
    /\ input.lines = << Ins(Arm("Drw", 0, 15, 1, 0, 16, 0)) >>
    /\ outcome = AsmErr("InvalidNibble", 16, 1)
    /\ output = << >>

\* a step that assembles the disassembly of an instruction line
ReassembleStep ==
    /\ stage = "assembled"
    /\ stage' = "reassembled"
    /\ Len(input.lines) = 1
    /\ input.lines[1].kind = "Ins"

\* the lines `SYS #E0` and `SYS #EE`
SysOfClsRet ==
    {Arm("Sys", a, 0, 0, 0, 0, 0) : a \in {\h0E0, \h0EE}}

\* C30 as stated: for every instruction line the assembler accepts, the
\* word emitted decodes to the non-Invalid arm named by the template with
\* the same operands, and assembling the disassembly of that arm gives the
\* identical word.
C30_RoundTrip ==
    [][ReassembleStep
          => /\ Decode(from_be_bytes(output)) = input.lines[1].meant
             /\ outcome' = Ok
             /\ output' = output]_vars

\* C30: for every instruction line the assembler accepts, other than
\* `SYS 0x0E0` and `SYS 0x0EE`, the word emitted decodes to the arm named
\* by the template with the same operands; those two lines emit 0x00E0 and
\* 0x00EE, which decode to Cls and Ret; for every accepted line the arm
\* decoded is not Invalid and assembling its disassembly gives the
\* identical word.
C30_RoundTripButSys ==
    [][ReassembleStep
          => /\ Decode(from_be_bytes(output)).op # "Invalid"
             /\ input.lines[1].meant \notin SysOfClsRet
                  => Decode(from_be_bytes(output)) = input.lines[1].meant
             /\ input.lines[1].meant \in SysOfClsRet
                  => Decode(from_be_bytes(output)).op \in {"Cls", "Ret"}
             /\ outcome' = Ok
             /\ output' = output]_vars

\* `SYS #E0` was assembled to 00 E0, disassembled as CLS and assembled to
\* 00 E0 again
C30_Witness ==
    /\ stage = "reassembled"
    /\ input.lines = << Ins(Arm("Sys", \h0E0, 0, 0, 0, 0, 0)) >>
    /\ input.src = Chars("CLS")
    /\ outcome = Ok
    /\ output = << \h00, \hE0 >>

(***************************************************************************)
(* load_rom under every reader: the bytes a reader holds are delivered by  *)
(* every script of up to MaxReads events, each a read of 1..MaxChunk       *)
(* bytes, an interrupted read or an I/O error; the interpreter is ticked   *)
(* twice and a ROM is loaded again.                                        *)
(***************************************************************************)
MaxReads == 3
MaxChunk == 2

ReadEvents == {ShortRead(k) : k \in 1..MaxChunk} \cup {Interrupted, IoError}
Scripts == UNION {[1..n -> ReadEvents] : n \in 0..MaxReads}
LoadedData == {<< >>, RomHalt, RomCut, RomLong}
ScriptedReaders == {Reader(d, s) : d \in LoadedData, s \in Scripts}
ReloadReaders ==
    { Reader(RomCut, << ShortRead(2), IoError >>),
      Reader(RomCalls, << Interrupted, ShortRead(1), Interrupted >>) }

LoadInit ==
    /\ Constructed
    /\ input \in ScriptedReaders
    /\ output = << >>
    /\ outcome = NotRun
    /\ stage = "given"

\* emulator.load_rom(reader)
LoadReader(reader) ==
    /\ LET r == Emulator_load_rom(Emu, reader)
       IN /\ Becomes(r.e)
          /\ result' = r.err
    /\ rom' = reader.data
    /\ input' = reader
    /\ op' = "load_rom"
    /\ from' = state
    /\ opcode' = NoOpcode
    /\ UNCHANGED << screen, output, outcome >>

\* the host loads from the reader given
LoadScripted ==
    /\ stage = "given"
    /\ LoadReader(input)
    /\ stage' = "loaded"

\* the host loads again, into the interpreter that ran
Reload ==
    /\ stage = "ticked twice"
    /\ Alive
    /\ \E reader \in ReloadReaders : LoadReader(reader)
    /\ stage' = "reloaded"

LoadNext == LoadScripted \/ TickOutput \/ Reload

LoadSpec == LoadInit /\ [][LoadNext]_vars

NoIoError(script) == \A k \in 1..Len(script) : script[k] # IoError

\* the bytes behind 0x200 after a load of data: what fits, then zeros
Image(data) ==
    SubSeq(data, 1, Min(Len(data), MEMORY_SIZE - ENTRY_POINT))
    \o Zeros(MEMORY_SIZE - ENTRY_POINT - Min(Len(data), MEMORY_SIZE - ENTRY_POINT))

\* C31: load_rom tolerates any reader behaviour: for every sequence of
\* short reads and Interrupted errors that delivers the bytes r and then
\* the end of the stream, load_rom returns Ok and leaves the memory and the
\* interpreter state that a reader delivering r in a single read leaves.
C31_ReaderTolerance ==
    [][LoadStep /\ NoIoError(input'.script)
          => /\ result' = Ok
             /\ Emu' = Emulator_load_rom(Emu, Reader(input'.data, << >>)).e
             /\ SubSeq(memory', ENTRY_POINT + 1, MEMORY_SIZE) = Image(rom')
             /\ state' = StateRunning]_vars

\* the three bytes of RomCut came in two reads of one byte with an
\* interrupted read between them and the rest in a last read
C31_Witness ==
    /\ stage = "loaded"
    /\ input = Reader(RomCut, << ShortRead(1), Interrupted, ShortRead(1) >>)
    /\ result = Ok
    /\ state = StateRunning
    /\ SubSeq(memory, ENTRY_POINT + 1, ENTRY_POINT + 4) = RomCut \o << 0 >>

\* the bytes the reads of a script deliver before its first I/O error
RECURSIVE Asked(_)
Asked(script) ==
    IF script = << >> \/ Head(script) = IoError THEN 0
    ELSE Head(script).n + Asked(Tail(script))

Delivered(reader) ==
    SubSeq(reader.data, 1,
           Min(Asked(reader.script),
               Min(Len(reader.data), MEMORY_SIZE - ENTRY_POINT)))

\* C32: when the reader returns an I/O error other than Interrupted,
\* load_rom returns LoadError and leaves the state as it was (New stays
\* New, and the ticks after it do nothing); PC, I, V, the timers, the
\* stack and the display have been reset, and the bytes read before the
\* error are in memory, in front of what the memory held.
C32_LoadError ==
    [][/\ LoadStep /\ result' # Ok
          => /\ result'.kind = "LoadError"
             /\ ~NoIoError(input'.script)
             /\ state' = state
             /\ pc' = ENTRY_POINT /\ i' = 0
             /\ registers' = VRegisters_default
             /\ delay_timer' = 0 /\ sound_timer' = 0
             /\ stack' = << >>
             /\ display' = [vram |-> BlankVram, updated |-> TRUE]
             /\ keyboard' = keyboard
             /\ memory' = FONT_SET
                          \o Zeros(ENTRY_POINT - Len(FONT_SET))
                          \o Delivered(input')
                          \o SubSeq(memory,
                                    ENTRY_POINT + Len(Delivered(input')) + 1,
                                    MEMORY_SIZE)
       /\ LoadStep /\ input'.script # << >> /\ Head(input'.script) = IoError
          => result' # Ok
       /\ TickOutput /\ state = StateNew
          => UNCHANGED emu_vars /\ result' = Ok]_vars

\* the reader of RomCut failed after two bytes, the interpreter stayed in
\* New and was ticked
C32_Witness ==
    /\ stage = "ticked"
    /\ input = Reader(RomCut, << ShortRead(2), IoError >>)
    /\ state = StateNew
    /\ pc = ENTRY_POINT
    /\ SubSeq(memory, ENTRY_POINT + 1, ENTRY_POINT + 3) = << \h12, \h00, 0 >>


(***************************************************************************)
(* The timers over a run: `input` remembers the value the last LdSTVx left *)
(* in the sound timer and counts the ticks that reached the fetch since.   *)
(***************************************************************************)
MaxTicks == 12

TimerReaders ==
    { Reader(RomOverflow, << >>), Reader(RomUnderflow, << >>),
      Reader(RomKeys, << >>) }

Disarmed == [armed |-> FALSE, v |-> 0, k |-> 0]

\* the tick gets past the match on the state, to the timers and the fetch
Fetching == state = StateRunning \/ (state.tag = "WaitingKey" /\ keyboard # 0)

TimerInit ==
    /\ Constructed
    /\ input = Disarmed
    /\ output = << >>
    /\ outcome = NotRun
    /\ stage = "idle"

\* the host loads a ROM that sets the timers
TimerLoad ==
    /\ Alive
    /\ \E reader \in TimerReaders :
         LET r == Emulator_load_rom(Emu, reader)
         IN /\ Becomes(r.e)
            /\ result' = r.err
            /\ rom' = reader.data
    /\ op' = "load_rom"
    /\ from' = state
    /\ opcode' = NoOpcode
    /\ input' = Disarmed
    /\ UNCHANGED << screen, output, outcome, stage >>

\* the host calls tick
TimedTick ==
    /\ Alive
    /\ input.k < MaxTicks
    /\ \E rnd \in RandBytes, checks \in BOOLEAN :
         LET r == Emulator_tick(Emu, rnd, checks)
         IN /\ Becomes(r.e)
            /\ result' = r.err
            /\ opcode' = r.opcode
    /\ op' = "tick"
    /\ from' = state
    /\ input' = IF opcode'.op = "LdSTVx"
                THEN [armed |-> TRUE, v |-> sound_timer', k |-> 0]
                ELSE IF input.armed /\ Fetching
                THEN [input EXCEPT !.k = @ + 1]
                ELSE input
    /\ UNCHANGED << rom, screen, output, outcome, stage >>

TimerNext == TimerLoad \/ TimedTick \/ PressKey \/ ReleaseKey

TimerSpec == TimerInit /\ [][TimerNext]_vars

\* C33: each timer goes down by exactly 1 on every tick that reaches the
\* fetch while it is positive and never below 0; apart from that only
\* load_rom changes it, and LdDTVx the delay timer and LdSTVx the sound
\* timer, neither timer depending on the other.  Hence, when a tick that
\* executed LdSTVx left the sound timer at v, after k further ticks that
\* reached the fetch, with no LdSTVx and no load_rom among them, the sound
\* timer is max(v - k, 0).
C33_Timers ==
    [][/\ TickStep /\ Fetching
          => /\ delay_timer' = IF opcode'.op = "LdDTVx" THEN registers'[opcode'.x]
                               ELSE Decremented(delay_timer)
             /\ sound_timer' = IF opcode'.op = "LdSTVx" THEN registers'[opcode'.x]
                               ELSE Decremented(sound_timer)
       /\ TickStep /\ ~Fetching
          => delay_timer' = delay_timer /\ sound_timer' = sound_timer
       /\ LoadStep => delay_timer' = 0 /\ sound_timer' = 0
       /\ HostStep => delay_timer' = delay_timer /\ sound_timer' = sound_timer
       /\ delay_timer' \in 0..255 /\ sound_timer' \in 0..255
       /\ input'.armed
          => sound_timer' = IF input'.v > input'.k THEN input'.v - input'.k
                            ELSE 0]_vars

\* LdSTVx left 5 in the sound timer, seven ticks followed and the timer,
\* which reached 0 after five of them, is still 0
C33_Witness ==
    /\ rom = RomUnderflow
    /\ input = [armed |-> TRUE, v |-> 5, k |-> 7]
    /\ sound_timer = 0
    /\ delay_timer = 0


(***************************************************************************)
(* Addresses at the end of the address space: the host loads a ROM that    *)
(* adds to I, jumps with V0, draws from I = 0xFFE, or has a skip or a call *)
(* in the last word a fetch can read, and ticks.                           *)
(***************************************************************************)
\* LD Vx,v; LD I,addr; ADD I,Vx; 0x206 JP 0x206
AddIRom(x, v, addr) ==
    WordsToBytes(<< WordSXKK(6, x, v), WordSNNN(10, addr),
                    WordSXYN(15, x, 1, 14), WordSNNN(1, \h206) >>)

\* LD V0,v; JP V0,addr; 0x204 JP 0x204
JpV0Rom(v, addr) ==
    WordsToBytes(<< WordSXKK(6, 0, v), WordSNNN(11, addr), WordSNNN(1, \h204) >>)

\* LD I,#FFE; DRW V0,V0,3; 0x204 JP 0x204
DrwEndRom == WordsToBytes(<< \hAFFE, \hD003, \h1204 >>)

\* JP #FFC at 0x200 and the word at 0xFFC, zeros between
EndRom(word) ==
    [k \in 1..(\hFFE - ENTRY_POINT) |->
        CASE k = 1 -> \h1F [] k = 2 -> \hFC
          [] k = \hFFC - ENTRY_POINT + 1 -> word \div 256
          [] k = \hFFC - ENTRY_POINT + 2 -> word % 256
          [] OTHER -> 0]

\* SE V0,0; SNE V0,0; SE V0,V1; SNE V0,V1; SKP V0; SKNP V0; CALL #FFC;
\* SYS #FFC; RET
EndWords ==
    {\h3000, \h4000, \h5010, \h9010, \hE09E, \hE0A1, \h2FFC, \h0FFC, \h00EE}

AddressRoms ==
    {AddIRom(x, v, addr) :
        x \in {0, \hF}, v \in {0, 1, 2, \hFF}, addr \in {\hF00, \hFFE, \hFFF}}
    \cup {JpV0Rom(v, addr) :
            v \in {0, 1, \hFF}, addr \in {\h000, \hD00, \hDFB, \hFFF}}
    \cup {DrwEndRom}
    \cup {EndRom(word) : word \in EndWords}

AddrInit ==
    /\ Constructed
    /\ input \in AddressRoms
    /\ output = << >>
    /\ outcome = NotRun
    /\ stage = "given"

AddrNext == LoadGiven \/ Tick

AddrSpec == AddrInit /\ [][AddrNext]_vars

\* the instructions that add to an address
AddressAdders ==
    {"SeByte", "SneByte", "SeRegister", "SneRegister", "Skp", "Sknp", "JpV0",
     "AddIVx", "Drw"}

\* C34: in every state reached by load_rom and ticks, failing ticks
\* included, PC and I are at most 0xFFF and so is every stack entry; a
\* checked address addition that fails with InvalidAddress leaves the
\* address it was applied to as it was.
C34_AddressRange ==
    [][/\ pc' <= \hFFF
       /\ i' <= \hFFF
       /\ \A k \in 1..Len(stack') : stack'[k] <= \hFFF
       /\ TickStep /\ result'.kind = "InvalidAddress"
          => /\ opcode'.op \in AddressAdders
             /\ result'.value > \hFFF
             /\ i' = i
             /\ pc' = pc + 2
             /\ stack' = stack
       /\ TickStep /\ Fetching /\ opcode'.op = "AddIVx"
          => IF i + registers[opcode'.x] > \hFFF
             THEN result' = Err("InvalidAddress", i + registers[opcode'.x])
             ELSE result' = Ok /\ i' = i + registers[opcode'.x]]_vars

\* ADD I, V0 with I = 0xFFF and V0 = 1 failed and I is still 0xFFF
C34_Witness ==
    /\ op = "tick"
    /\ opcode.op = "AddIVx"
    /\ result = Err("InvalidAddress", \h1000)
    /\ i = \hFFF
    /\ pc = \h206


(***************************************************************************)
(* Display::set on its own: a column, a row and a byte are given and the   *)
(* byte is set twice, in a build with overflow checks or in one without.   *)
(***************************************************************************)
MaxColumn == 255

SetColumns == 0..MaxColumn
SetRows == {0, 31, 32, 255}
SetBytes == {\h01, \h80, \hA5, \hFF}

SetInit ==
    /\ Constructed
    /\ input \in [x : SetColumns, y : SetRows, value : SetBytes]
    /\ output = << >>
    /\ outcome = NotRun
    /\ stage = "given"

\* what display.set(x, y, value) returned, or the panic it ended in
SetReturned(r) ==
    /\ display' = r.display
    /\ output' = << r.result >>
    /\ outcome' = IF r.panic THEN Err("Panic", 0) ELSE Ok

\* display.set(x, y, value)
SetPixels ==
    /\ stage \in {"given", "set"}
    /\ outcome.kind # "Panic"
    /\ \E checks \in BOOLEAN :
         SetReturned(Display_set(display, input.x, input.y, input.value, checks))
    /\ stage' = IF stage = "given" THEN "set" ELSE "set twice"
    /\ UNCHANGED << pc, i, registers, sound_timer, delay_timer, stack, memory,
                    keyboard, state, op, from, opcode, result, rom, screen,
                    input >>

SetNext == SetPixels

SetSpec == SetInit /\ [][SetNext]_vars

\* bit k of the byte, k = 0 the most significant
ByteBit(value, k) == (value \div Pow2(7 - k)) % 2 = 1

\* the frame with the byte XORed in at columns (x + k) mod 64 of row y mod 32
Xored(vram, x, y, value) ==
    [c \in 0..(WIDTH - 1) |->
        [r \in 0..(HEIGHT - 1) |->
            IF r = y % HEIGHT
               /\ \E k \in 0..7 : (x + k) % WIDTH = c /\ ByteBit(value, k)
            THEN ~vram[c][r]
            ELSE vram[c][r]]]

\* C35: for every x and y in 0..=255 and every byte, Display.set completes
\* without 8-bit arithmetic overflow and XORs bit k of the byte into the
\* pixel at column (x + k) mod 64, row y mod 32, and changes no other
\* pixel; for x >= 248 the columns wrap modulo 64.
C35_SetWraps ==
    [][stage' # stage
          => /\ outcome' = Ok
             /\ display'.vram = Xored(display.vram, input.x, input.y, input.value)
      ]_vars


\* C36: the `updated` flag never loses an update: load_rom, Cls and every
\* Drw that blits a row set it and no tick clears it, so with the host
\* that renders a copy of the frame only when the flag is set and then
\* clears it, whenever the flag is false the copy rendered last is the
\* current frame, in every interleaving of loads, ticks and host frames.
C36_UpdatedFlag ==
    [][/\ LoadStep => display'.updated
       /\ ArmStep("Cls") => display'.updated /\ display'.vram = BlankVram
       /\ Executes("Drw") /\ opcode'.n > 0 => display'.updated
       /\ TickStep /\ display.updated => display'.updated
       /\ TickStep /\ display'.vram # display.vram => display'.updated
       /\ ~display'.updated => screen' = display'.vram]_vars

\* the host rendered the row RomFrame drew; the Cls comes next
C36_Witness ==
    /\ rom = RomFrame
    /\ pc = \h204
    /\ ~display.updated
    /\ display.vram # BlankVram
    /\ screen = display.vram


(***************************************************************************)
(* Sub and Subn on given operands: the host loads `LD Vx, a` / `LD Vy, b`  *)
(* / `SUB Vx, Vy` or `SUBN Vx, Vy` / `JP 0x206` and ticks.                 *)
(***************************************************************************)
SubRom(n, x, a, y, b) ==
    WordsToBytes(<< WordSXKK(6, x, a), WordSXKK(6, y, b),
                    WordSXYN(8, x, y, n), WordSNNN(1, \h206) >>)

SubInit ==
    /\ Constructed
    /\ input \in {SubRom(n, x, a, y, b) :
                    n \in {5, 7}, x \in {0, 1, \hE}, y \in {1, 2, \hF},
                    a \in {0, 1, 5, 9, \hFF}, b \in {0, 1, 5, 9, \hFF}}
    /\ output = << >>
    /\ outcome = NotRun
    /\ stage = "given"

SubNext == LoadGiven \/ Tick

SubSpec == SubInit /\ [][SubNext]_vars

\* C37: for Sub{x, y} and Subn{x, y} with x # 0xF the result stored in
\* V[x] is the wrapping difference of the values V[x] and V[y] held before
\* the instruction, V[x] - V[y] for Sub and V[y] - V[x] for Subn, for every
\* y, y = 0xF included: the flag write alters no operand before it is read.
C37_SubOperands ==
    [][/\ ArmStep("Sub") /\ opcode'.x # 15
          => registers'[opcode'.x] = (Vx - Vy) % 256
       /\ ArmStep("Subn") /\ opcode'.x # 15
          => registers'[opcode'.x] = (Vy - Vx) % 256]_vars



\* the word emitted for line k, a reference
ReferenceWord(lines, k) ==
    from_be_bytes(SubSeq(output, Emitted(lines, k) + 1, Emitted(lines, k) + 2))

\* the address of the label line k names
Referred(lines, k) ==
    \h200 + Emitted(lines, CHOOSE j \in Definitions(lines, lines[k].name) : TRUE)

\* C38: the bytes emitted for a label reference do not depend on whether
\* the label is defined before or after the referencing line: in both
\* cases the high nibble of the word is the opcode nibble of the
\* instruction and its low 12 bits are the label address & 0xFFF, for
\* every label address the cursor can reach, addresses above 0xFFF
\* included.
C38_ReferenceOrder ==
    (stage = "assembled" /\ outcome = Ok)
       => \A k \in 1..Len(input.lines) :
             input.lines[k].kind = "Ref"
               => /\ ReferenceWord(input.lines, k) \div 4096
                       = input.lines[k].first
                  /\ ReferenceWord(input.lines, k) % 4096
                       = Referred(input.lines, k) % 4096


(***************************************************************************)
(* The tokenizer iterated over a text, as assemble does with its map.      *)
(* The text is made of pieces, one per line, each written with the tokens  *)
(* it stands for; it ends with a newline or without one.                   *)
(***************************************************************************)
MaxPieces == 3

\* a piece of text without a newline, the tokens it is made of, and whether
\* one of its lexemes is no token
Piece(text, tokens, bad) == [text |-> text, tokens |-> tokens, bad |-> bad]

Pieces ==
    {Piece(<< >>, << >>, FALSE),
     Piece(<< " ", "\t", "\r" >>, << >>, FALSE),
     Piece(<< ";", " ", "c", ",", "V", "1", "0" >>, << >>, FALSE),
     Piece(<< "C", "L", "S" >>, << Identifier(<< "C", "L", "S" >>) >>, FALSE),
     Piece(<< "a", ":", " ", ";", "?" >>, << Label(<< "a" >>) >>, FALSE),
     Piece(<< "L", "D", " ", "V", "F", ",", " ", "#", "1", "f" >>,
           << Identifier(<< "L", "D" >>), Register(15), Comma, Number(31) >>,
           FALSE),
     Piece(<< "V", "a", ",", "1", "0" >>,
           << Register(10), Comma, Number(10) >>, FALSE),
     Piece(<< "V", "0", "F", "\t", "[", "I", "]" >>,
           << Register(15), Identifier(<< "[", "I", "]" >>) >>, FALSE),
     Piece(<< "?" >>, << >>, TRUE),
     Piece(<< "V", "1", "0", " ", "V", "1" >>, << >>, TRUE),
     Piece(<< "V", "1", "G" >>, << >>, TRUE),
     Piece(<< "J", "P", " ", "#", "F", "F", "F", "F", "F" >>, << >>, TRUE),
     Piece(<< "7", "0", "0", "0", "0", ",", "V", "2" >>, << >>, TRUE)}

\* the text of the pieces, one per line; closed: the last line ends with a
\* newline too
Text(pieces, closed) ==
    [tokenizer |-> Tokenizer_new(IF closed THEN Join(pieces) \o << "\n" >>
                                 ELSE Join(pieces)),
     pieces |-> pieces,
     closed |-> closed]

TokInit ==
    /\ Constructed
    /\ input \in {Text(p, closed) :
                     p \in UNION {[1..n -> Pieces] : n \in 1..MaxPieces},
                     closed \in BOOLEAN}
    /\ output = << >>
    /\ outcome = NotRun
    /\ stage = "given"

\* what next returned: Some(item) is appended to the items yielded, with
\* the position the call started from; None ends the iteration
Yielded(r) ==
    /\ input' = [input EXCEPT !.tokenizer = r.self]
    /\ output' = IF r.none THEN output
                 ELSE Append(output, [from |-> input.tokenizer.pos,
                                      err |-> r.err, line |-> r.line])
    /\ outcome' = IF r.none THEN [kind |-> "None", value |-> 0] ELSE r.err
    /\ stage' = IF r.none THEN "done" ELSE "iterating"

\* one call of Iterator::next by the consumer of the tokenizer
Iterate ==
    /\ stage # "done"
    /\ Yielded(Tokenizer_next(input.tokenizer))
    /\ UNCHANGED << emu_vars, host_vars >>

TokNext == Iterate

\* the loop calls next until it returns None: weak fairness of TokNext,
\* which is enabled exactly while the iteration is not done
TokSpec ==
    TokInit /\ [][TokNext]_vars
      /\ ([]<>(stage = "done") \/ []<><<TokNext>>_vars)

\* the newlines of the text before position k
Newlines(src, k) == Cardinality({j \in 1..(k - 1) : src[j] = "\n"})

\* no piece of the text has a lexical error
ErrorFree == \A k \in 1..Len(input.pieces) : ~input.pieces[k].bad

\* the lines of the text, given whether its last piece counts as one
LinesOf(pieces, last) ==
    [k \in 1..(IF last THEN Len(pieces) ELSE Len(pieces) - 1) |->
        Line(pieces[k].tokens, k)]

\* the lines yielded so far
YieldedLines == [k \in 1..Len(output) |-> output[k].line]

\* the items yielded are the first lines of `lines`, all of them at the end
InOrder(lines) ==
    /\ Len(output) <= Len(lines)
    /\ YieldedLines = SubSeq(lines, 1, Len(output))
    /\ stage = "done" => Len(output) = Len(lines)

\* every step that yields an item consumes at least one character
Consumes == output' # output => input'.tokenizer.pos > input.tokenizer.pos

\* every Register token yielded carries a value in 0..15, and every item
\* of an error-free text has the number of newlines before it, plus one
Numbered ==
    /\ \A k \in 1..Len(output) :
          \A t \in 1..Len(output[k].line.tokens) :
             output[k].line.tokens[t].kind = "Register"
               => output[k].line.tokens[t].num \in 0..15
    /\ ErrorFree
         => \A k \in 1..Len(output) :
               /\ output[k].err = Ok
               /\ output[k].line.line
                    = Newlines(input.tokenizer.src, output[k].from) + 1

\* C39 as stated: iterating the tokenizer terminates, each step consuming
\* at least one byte, also on lexical errors; an error-free text yields
\* its lines in source order, numbered from 1 by the newlines before them;
\* every blank or comment-only line yields an empty token list with its
\* own line number; every Register token carries a value in 0..15.
C39_EveryLine ==
    /\ [](Numbered /\ (ErrorFree =>
            InOrder(LinesOf(input.pieces,
                            input.closed
                              \/ input.pieces[Len(input.pieces)].text # << >>))))
    /\ [][Consumes]_vars
    /\ <>(stage = "done")

\* C39, amended: iterating the tokenizer terminates, each step consuming
\* at least one byte, also on lexical errors; an error-free text yields
\* its lines in source order, numbered from 1 by the newlines before them;
\* a blank or comment-only line that ends with a newline yields an empty
\* token list with its own line number, and a last line that is blank or
\* comment-only and does not end with a newline yields nothing; every
\* Register token carries a value in 0..15.
C39_Tokenizer ==
    /\ [](Numbered /\ (ErrorFree =>
            InOrder(LinesOf(input.pieces,
                            input.closed
                              \/ input.pieces[Len(input.pieces)].tokens # << >>))))
    /\ [][Consumes]_vars
    /\ <>(stage = "done")

\* `a: ;?` / `; c,V10` / `LD VF, #1f` was iterated to its end: the comment
\* line gave an empty token list numbered 2, the last line a Register 15
C39_Witness ==
    /\ stage = "done"
    /\ input.pieces
         = << Piece(<< "a", ":", " ", ";", "?" >>, << Label(<< "a" >>) >>, FALSE),
              Piece(<< ";", " ", "c", ",", "V", "1", "0" >>, << >>, FALSE),
              Piece(<< "L", "D", " ", "V", "F", ",", " ", "#", "1", "f" >>,
                    << Identifier(<< "L", "D" >>), Register(15), Comma,
                       Number(31) >>, FALSE) >>
    /\ ~input.closed
    /\ Len(output) = 3
    /\ output[2].line = Line(<< >>, 2)
    /\ output[3].line.tokens[2] = Register(15)

====
